---- MODULE Spec2Model ----
(***************************************************************************)
(* A model of the OpenMV sensor Python module (py_sensor.c): the facade    *)
(* operations, the orientation auto-correction, the windowing resolver and *)
(* the vendor ioctl multiplexer, over a driver that answers every call     *)
(* with an error code.                                                     *)
(***************************************************************************)
EXTENDS Integers, Sequences, FiniteSets, TLC

VARIABLES
    sensor,   \* SensorState: the driver's recorded configuration
    fb,       \* frame buffer manager: committed window and buffer count
    arena,    \* frame buffer arena (fb_alloc stack), top of stack is the tail
    build,    \* compile-time switches of the firmware build
    imu,      \* the orientation the board is held in: what the IMU reads
    zone,     \* the active-zone half-width the roll is classified with
    skipreq,  \* the argument list the script passes to skip_frames
    winreq,   \* the argument list the script passes to set_windowing
    session,  \* the part of the control surface the script uses
    clock,    \* mp_hal_ticks_ms(): the millisecond counter, which wraps around
    skip,     \* the skip_frames call in progress: its locals and loop position
    vsync_callback,  \* the vsync callback slot (a static of the module)
    frame_callback,  \* the frame-ready callback slot (a static of the module)
    irq,      \* the handler the driver holds for each hardware event source
    reg,      \* the registration in progress, the value last offered for each slot
    invoked,  \* what the last hardware event made the trampoline call
    op,       \* the operation that ran last: its arguments, the arena it found
    calls,    \* collaborator calls that operation made, in order
    result    \* how that operation ended

cbvars == <<vsync_callback, frame_callback, irq, reg, invoked>>
vars == <<sensor, fb, arena, build, imu, zone, winreq, skipreq, session, clock, skip,
          vsync_callback, frame_callback, irq, reg, invoked, op, calls, result>>

----------------------------------------------------------------------------
\* Bounds of the model.

\* window coordinates and sizes are drawn from -MaxCoord..MaxCoord
MaxCoord == 4
\* angles are drawn from within AngleSlack degrees of every threshold
AngleSlack == 1
\* ioctl is called with at most MaxArgs arguments (the request included)
MaxArgs == 4
\* byte length of an attribute payload, word count of an attribute read
MaxData == 3
\* frame buffer counts asked for
MaxBuffers == 2
\* width and height of an extra frame buffer
MaxSide == 2
\* entries on the arena stack
MaxArena == 4
\* bytes of the arena
ArenaSize == 8
\* levels passed to brightness, contrast, saturation and the like
MaxLevel == 1
\* the millisecond counter is ClockBits wide
ClockBits == 10
\* captures one skip_frames call is followed through
MaxFrames == 5

----------------------------------------------------------------------------
\* Error codes (sensor.h) and Python results.

NO_ERROR == "SENSOR_ERROR_NO_ERROR"
SENSOR_ERROR_CTL_FAILED == "SENSOR_ERROR_CTL_FAILED"
SENSOR_ERROR_CTL_UNSUPPORTED == "SENSOR_ERROR_CTL_UNSUPPORTED"
SENSOR_ERROR_INVALID_FRAMESIZE == "SENSOR_ERROR_INVALID_FRAMESIZE"
SENSOR_ERROR_INVALID_ARGUMENT == "SENSOR_ERROR_INVALID_ARGUMENT"

\* what a driver call may return
DriverCodes == {NO_ERROR, SENSOR_ERROR_CTL_FAILED}

\* an operation that returns normally: none, true, false, an image or a value
Returns(type) == [type |-> type, err |-> NO_ERROR, value |-> <<>>]
ReturnsValue(v) == [type |-> "value", err |-> NO_ERROR, value |-> v]
\* sensor_raise_error(err): RuntimeError carrying sensor_strerror(err)
sensor_raise_error(err) == [type |-> "RuntimeError", err |-> err, value |-> <<>>]
\* mp_raise_msg(&mp_type_ValueError, msg)
ValueError(msg) == [type |-> "ValueError", err |-> msg, value |-> <<>>]
\* PY_ASSERT_TRUE_MSG / PY_ASSERT_FALSE_MSG failing
AssertError(msg) == [type |-> "OSError", err |-> msg, value |-> <<>>]
\* the heap is exhausted
MemoryError == [type |-> "MemoryError", err |-> "memory", value |-> <<>>]

Raised(r) == r.type \in {"RuntimeError", "ValueError", "OSError", "MemoryError"}

\* The spec's error taxonomy of a result.
ErrorKind(r) ==
    IF ~Raised(r) THEN "none"
    ELSE IF r.type \in {"ValueError", "OSError"} THEN "InvalidArgument"
    ELSE IF r.type = "MemoryError" THEN "MemoryError"
    ELSE IF r.err = SENSOR_ERROR_INVALID_ARGUMENT THEN "InvalidArgument"
    ELSE IF r.err = SENSOR_ERROR_INVALID_FRAMESIZE THEN "InvalidFrameSize"
    ELSE IF r.err = SENSOR_ERROR_CTL_UNSUPPORTED THEN "UnsupportedControl"
    ELSE "SensorError"

\* C integer division truncates toward zero.
CDiv(a, b) == IF a >= 0 THEN a \div b ELSE 0 - ((0 - a) \div b)

----------------------------------------------------------------------------
\* Frame sizes and the resolution table.

FRAMESIZE_INVALID == "FRAMESIZE_INVALID"
FrameSizes == {"FS_A", "FS_B"}
resolution == [f \in FrameSizes |-> IF f = "FS_A" THEN <<4, 2>> ELSE <<3, 3>>]

PIXFORMAT_INVALID == "PIXFORMAT_INVALID"
PixFormats == {"PIXFORMAT_GRAYSCALE", "PIXFORMAT_RGB565"}

\* SensorState after construction and after a driver reset.
SensorInit ==
    [pixformat |-> PIXFORMAT_INVALID, framesize |-> FRAMESIZE_INVALID,
     framerate |-> 0, hmirror |-> FALSE, vflip |-> FALSE, transpose |-> FALSE,
     auto_rotation |-> FALSE]

FbInit == [x |-> 0, y |-> 0, u |-> 0, v |-> 0, n_buffers |-> 1]

\* The machine an operation starts on: the state, and no call made yet.
Machine ==
    [sensor |-> sensor, fb |-> fb, arena |-> arena, calls |-> <<>>,
     result |-> Returns("none")]

\* Record a collaborator call with its arguments and what it returned.
Call(m, fn, args, ret) == [m EXCEPT !.calls = Append(@, <<fn, args, ret>>)]

Finish(m, r) == [m EXCEPT !.result = r]

----------------------------------------------------------------------------
\* The sensor driver (sensor.h), at its interface: every mutator returns an
\* error code and commits the new value only when that code is 0.

sensor_set_hmirror(m, enable, ret) ==
    LET m1 == Call(m, "sensor_set_hmirror", <<enable>>, ret)
    IN  IF ret = NO_ERROR THEN [m1 EXCEPT !.sensor.hmirror = enable] ELSE m1

sensor_set_vflip(m, enable, ret) ==
    LET m1 == Call(m, "sensor_set_vflip", <<enable>>, ret)
    IN  IF ret = NO_ERROR THEN [m1 EXCEPT !.sensor.vflip = enable] ELSE m1

sensor_set_transpose(m, enable, ret) ==
    LET m1 == Call(m, "sensor_set_transpose", <<enable>>, ret)
    IN  IF ret = NO_ERROR THEN [m1 EXCEPT !.sensor.transpose = enable] ELSE m1

sensor_set_auto_rotation(m, enable, ret) ==
    LET m1 == Call(m, "sensor_set_auto_rotation", <<enable>>, ret)
    IN  IF ret = NO_ERROR THEN [m1 EXCEPT !.sensor.auto_rotation = enable] ELSE m1

\* A reset puts the recorded state back to its power-on values; whether
\* auto-rotation is on afterwards depends on the sensor chip (chip_auto).
sensor_reset(m, chip_auto, ret) ==
    LET m1 == Call(m, "sensor_reset", <<>>, ret)
    IN  IF ret = NO_ERROR
        THEN [m1 EXCEPT !.sensor = [SensorInit EXCEPT !.auto_rotation = chip_auto]]
        ELSE m1

\* sensor.snapshot(&sensor, image, 0): captures a frame, changes no setting.
sensor_snapshot(m, ret) == Call(m, "sensor.snapshot", <<>>, ret)

\* The orientation sensor (py_imu.h).
py_imu_pitch_rotation(m, pitch) == Call(m, "py_imu_pitch_rotation", <<>>, pitch)
py_imu_roll_rotation(m, roll) == Call(m, "py_imu_roll_rotation", <<>>, roll)

----------------------------------------------------------------------------
\* do_auto_rotation: env carries what the environment answers during the call,
\* the pitch and roll readings and the driver's three return codes.

\* the three setter calls of one branch; their return values are not looked at
SetOrientation(m, mirror, flip, trans, env) ==
    sensor_set_transpose(
        sensor_set_vflip(
            sensor_set_hmirror(m, mirror, env.rc[1]),
            flip, env.rc[2]),
        trans, env.rc[3])

\* the guard of line 41-42: the pitch is outside both dead zones
PitchOutside(pitch, pitch_deadzone) ==
    /\ (pitch <= (90 - pitch_deadzone)) \/ ((90 + pitch_deadzone) < pitch)
    /\ (pitch <= (270 - pitch_deadzone)) \/ ((270 + pitch_deadzone) < pitch)

RollSector_Closed(roll, roll_activezone) ==
    IF ((360 - roll_activezone) <= roll) \/ (roll <= (0 + roll_activezone))
    THEN "upright"
    ELSE IF ((270 - roll_activezone) <= roll) /\ (roll <= (270 + roll_activezone))
    THEN "right"
    ELSE IF ((180 - roll_activezone) <= roll) /\ (roll <= (180 + roll_activezone))
    THEN "upside_down"
    ELSE IF ((90 - roll_activezone) <= roll) /\ (roll <= (90 + roll_activezone))
    THEN "left"
    ELSE "none"

\* the if/else-if chain of lines 44-60: the first sector that matches
RollSector(roll, roll_activezone) ==
    IF ((360 - roll_activezone) <= roll) \/ (roll < (0 + roll_activezone))
    THEN "upright"
    ELSE IF ((270 - roll_activezone) <= roll) /\ (roll < (270 + roll_activezone))
    THEN "right"
    ELSE IF ((180 - roll_activezone) <= roll) /\ (roll < (180 + roll_activezone))
    THEN "upside_down"
    ELSE IF ((90 - roll_activezone) <= roll) /\ (roll < (90 + roll_activezone))
    THEN "left"
    ELSE "none"

\* the (mirror, flip, transpose) triple each branch passes to the driver
SectorTriple_Swapped(sector) ==
    CASE sector = "upright" -> <<FALSE, FALSE, FALSE>>
      [] sector = "right" -> <<FALSE, TRUE, TRUE>>
      [] sector = "upside_down" -> <<TRUE, TRUE, FALSE>>
      [] sector = "left" -> <<TRUE, FALSE, TRUE>>

SectorTriple(sector) ==
    CASE sector = "upright" -> <<FALSE, FALSE, FALSE>>
      [] sector = "right" -> <<TRUE, FALSE, TRUE>>
      [] sector = "upside_down" -> <<TRUE, TRUE, FALSE>>
      [] sector = "left" -> <<FALSE, TRUE, TRUE>>

do_auto_rotation(m, pitch_deadzone, roll_activezone, env) ==
    IF m.sensor.auto_rotation
    THEN LET m1 == py_imu_pitch_rotation(m, env.pitch)
         IN  IF PitchOutside(env.pitch, pitch_deadzone)
             THEN LET m2 == py_imu_roll_rotation(m1, env.roll)
                      sector == RollSector(env.roll, roll_activezone)
                  IN  IF sector = "none" THEN m2
                      ELSE LET t == SectorTriple(sector)
                           IN  SetOrientation(m2, t[1], t[2], t[3], env)
             ELSE m1
    ELSE m

\* do_auto_rotation exists only in a build with MICROPY_PY_IMU
AutoRotationStep(m, pitch_deadzone, roll_activezone, env) ==
    IF build.imu THEN do_auto_rotation(m, pitch_deadzone, roll_activezone, env) ELSE m

----------------------------------------------------------------------------
\* reset and snapshot.

py_sensor_reset_RotateFirst(m, env) ==
    LET m0 == AutoRotationStep(m, 10, 45, env)
        m1 == sensor_reset(m0, env.chip_auto, env.ret)
    IN  IF env.ret # NO_ERROR THEN Finish(m1, sensor_raise_error(env.ret))
        ELSE Finish(m1, Returns("none"))

py_sensor_reset_Narrow(m, env) ==
    LET m1 == sensor_reset(m, env.chip_auto, env.ret)
    IN  IF env.ret # NO_ERROR THEN Finish(m1, sensor_raise_error(env.ret))
        ELSE Finish(AutoRotationStep(m1, 10, 35, env), Returns("none"))

py_sensor_reset(m, env) ==
    LET m1 == sensor_reset(m, env.chip_auto, env.ret)
    IN  IF env.ret # NO_ERROR THEN Finish(m1, sensor_raise_error(env.ret))
        ELSE Finish(AutoRotationStep(m1, 10, 45, env), Returns("none"))

py_sensor_snapshot_RotateAfter(m, env) ==
    LET m1 == sensor_snapshot(m, env.ret)
    IN  IF env.ret # NO_ERROR THEN Finish(m1, sensor_raise_error(env.ret))
        ELSE Finish(AutoRotationStep(m1, 10, 35, env), Returns("image"))

py_sensor_snapshot(m, env) ==
    LET m1 == AutoRotationStep(m, 10, 35, env)
        m2 == sensor_snapshot(m1, env.ret)
    IN  IF env.ret # NO_ERROR THEN Finish(m2, sensor_raise_error(env.ret))
        ELSE Finish(m2, Returns("image"))

----------------------------------------------------------------------------
\* The raising setters of the orientation flags.

py_sensor_set_hmirror(m, enable, env) ==
    LET m1 == sensor_set_hmirror(m, enable, env.ret)
    IN  IF env.ret # NO_ERROR THEN Finish(m1, sensor_raise_error(env.ret))
        ELSE Finish(m1, Returns("none"))

py_sensor_set_vflip(m, enable, env) ==
    LET m1 == sensor_set_vflip(m, enable, env.ret)
    IN  IF env.ret # NO_ERROR THEN Finish(m1, sensor_raise_error(env.ret))
        ELSE Finish(m1, Returns("none"))

py_sensor_set_transpose(m, enable, env) ==
    LET m1 == sensor_set_transpose(m, enable, env.ret)
    IN  IF env.ret # NO_ERROR THEN Finish(m1, sensor_raise_error(env.ret))
        ELSE Finish(m1, Returns("none"))

py_sensor_set_auto_rotation(m, enable, env) ==
    LET m1 == sensor_set_auto_rotation(m, enable, env.ret)
    IN  IF env.ret # NO_ERROR THEN Finish(m1, sensor_raise_error(env.ret))
        ELSE Finish(m1, Returns("none"))

----------------------------------------------------------------------------
\* Rectangles (imlib.h) and the windowing resolver.

\* the two rectangles share at least one pixel
rectangle_overlap(r0, r1) ==
    /\ r0.x < r1.x + r1.w
    /\ r0.y < r1.y + r1.h
    /\ r1.x < r0.x + r0.w
    /\ r1.y < r0.y + r0.h

Max(a, b) == IF a >= b THEN a ELSE b
Min(a, b) == IF a <= b THEN a ELSE b

\* dst clipped to src
rectangle_intersected(dst, src) ==
    LET leftX == Max(dst.x, src.x)
        topY == Max(dst.y, src.y)
        rightX == Min(dst.x + dst.w, src.x + src.w)
        bottomY == Min(dst.y + dst.h, src.y + src.h)
    IN  [x |-> leftX, y |-> topY, w |-> rightX - leftX, h |-> bottomY - topY]

\* the driver commits the window to the frame buffer manager when it succeeds
sensor_set_windowing(m, r, ret) ==
    LET m1 == Call(m, "sensor_set_windowing", <<r.x, r.y, r.w, r.h>>, ret)
    IN  IF ret = NO_ERROR
        THEN [m1 EXCEPT !.fb.x = r.x, !.fb.y = r.y, !.fb.u = r.w, !.fb.v = r.h]
        ELSE m1

\* the driver records the frame size and opens the window to the full frame
sensor_set_framesize(m, framesize, ret) ==
    LET m1 == Call(m, "sensor_set_framesize", <<framesize>>, ret)
    IN  IF ret = NO_ERROR
        THEN [m1 EXCEPT !.sensor.framesize = framesize,
                        !.fb.x = 0, !.fb.y = 0,
                        !.fb.u = resolution[framesize][1],
                        !.fb.v = resolution[framesize][2]]
        ELSE m1

py_sensor_set_framesize(m, framesize, env) ==
    LET m1 == sensor_set_framesize(m, framesize, env.ret)
    IN  IF env.ret # NO_ERROR THEN Finish(m1, sensor_raise_error(env.ret))
        ELSE Finish(m1, Returns("none"))

\* the rectangle of a 2-value argument: the size, centred with W/2 - w/2
CenteredRect_Difference(array, temp) ==
    [x |-> CDiv(temp.w - array[1], 2), y |-> CDiv(temp.h - array[2], 2),
     w |-> array[1], h |-> array[2]]

CenteredRect(array, temp) ==
    [x |-> CDiv(temp.w, 2) - CDiv(array[1], 2),
     y |-> CDiv(temp.h, 2) - CDiv(array[2], 2),
     w |-> array[1], h |-> array[2]]

\* the rectangle the driver is given once the request passed the checks
CommittedRect_Unclipped(r, temp) == r

CommittedRect(r, temp) == rectangle_intersected(r, temp)

py_sensor_set_windowing_OverlapFirst(m, a, env) ==
    IF m.sensor.framesize = FRAMESIZE_INVALID
    THEN Finish(m, sensor_raise_error(SENSOR_ERROR_INVALID_FRAMESIZE))
    ELSE
    LET temp == [x |-> 0, y |-> 0,
                 w |-> resolution[m.sensor.framesize][1],
                 h |-> resolution[m.sensor.framesize][2]]
        array == a.array
        array_len == Len(array)
    IN  IF array_len \notin {2, 4}
        THEN Finish(m, ValueError("The tuple/list must either be (x, y, w, h) or (w, h)"))
        ELSE
        LET r == IF array_len = 2
                 THEN CenteredRect(array, temp)
                 ELSE [x |-> array[1], y |-> array[2], w |-> array[3], h |-> array[4]]
        IN  IF ~rectangle_overlap(r, temp)
            THEN Finish(m, ValueError("ROI does not overlap on the image!"))
            ELSE IF (r.w < 1) \/ (r.h < 1)
            THEN Finish(m, ValueError("Invalid ROI dimensions!"))
            ELSE LET m1 == sensor_set_windowing(m, CommittedRect(r, temp), env.ret)
                 IN  IF env.ret # NO_ERROR
                     THEN Finish(m1, sensor_raise_error(env.ret))
                     ELSE Finish(m1, Returns("none"))

py_sensor_set_windowing_ShapeFirst(m, a, env) ==
    IF Len(a.array) \notin {2, 4}
    THEN Finish(m, ValueError("The tuple/list must either be (x, y, w, h) or (w, h)"))
    ELSE IF m.sensor.framesize = FRAMESIZE_INVALID
    THEN Finish(m, sensor_raise_error(SENSOR_ERROR_INVALID_FRAMESIZE))
    ELSE
    LET temp == [x |-> 0, y |-> 0,
                 w |-> resolution[m.sensor.framesize][1],
                 h |-> resolution[m.sensor.framesize][2]]
        array == a.array
        array_len == Len(array)
    IN  IF array_len \notin {2, 4}
        THEN Finish(m, ValueError("The tuple/list must either be (x, y, w, h) or (w, h)"))
        ELSE
        LET r == IF array_len = 2
                 THEN CenteredRect(array, temp)
                 ELSE [x |-> array[1], y |-> array[2], w |-> array[3], h |-> array[4]]
        IN  IF (r.w < 1) \/ (r.h < 1)
            THEN Finish(m, ValueError("Invalid ROI dimensions!"))
            ELSE IF ~rectangle_overlap(r, temp)
            THEN Finish(m, ValueError("ROI does not overlap on the image!"))
            ELSE LET m1 == sensor_set_windowing(m, CommittedRect(r, temp), env.ret)
                 IN  IF env.ret # NO_ERROR
                     THEN Finish(m1, sensor_raise_error(env.ret))
                     ELSE Finish(m1, Returns("none"))

\* a.array holds the values of the tuple/list when n_args = 1 and the
\* arguments themselves otherwise
py_sensor_set_windowing(m, a, env) ==
    IF m.sensor.framesize = FRAMESIZE_INVALID
    THEN Finish(m, sensor_raise_error(SENSOR_ERROR_INVALID_FRAMESIZE))
    ELSE
    LET temp == [x |-> 0, y |-> 0,
                 w |-> resolution[m.sensor.framesize][1],
                 h |-> resolution[m.sensor.framesize][2]]
        array == a.array
        array_len == Len(array)
    IN  IF array_len \notin {2, 4}
        THEN Finish(m, ValueError("The tuple/list must either be (x, y, w, h) or (w, h)"))
        ELSE
        LET r == IF array_len = 2
                 THEN CenteredRect(array, temp)
                 ELSE [x |-> array[1], y |-> array[2], w |-> array[3], h |-> array[4]]
        IN  IF (r.w < 1) \/ (r.h < 1)
            THEN Finish(m, ValueError("Invalid ROI dimensions!"))
            ELSE IF ~rectangle_overlap(r, temp)
            THEN Finish(m, ValueError("ROI does not overlap on the image!"))
            ELSE LET m1 == sensor_set_windowing(m, CommittedRect(r, temp), env.ret)
                 IN  IF env.ret # NO_ERROR
                     THEN Finish(m1, sensor_raise_error(env.ret))
                     ELSE Finish(m1, Returns("none"))

py_sensor_get_windowing_Full(m) ==
    IF m.sensor.framesize = FRAMESIZE_INVALID
    THEN Finish(m, sensor_raise_error(SENSOR_ERROR_INVALID_FRAMESIZE))
    ELSE Finish(m, ReturnsValue(<<0, 0, resolution[m.sensor.framesize][1],
                                  resolution[m.sensor.framesize][2]>>))

py_sensor_get_windowing(m) ==
    IF m.sensor.framesize = FRAMESIZE_INVALID
    THEN Finish(m, sensor_raise_error(SENSOR_ERROR_INVALID_FRAMESIZE))
    ELSE Finish(m, ReturnsValue(<<m.fb.x, m.fb.y, m.fb.u, m.fb.v>>))

----------------------------------------------------------------------------
\* Pixel format and frame rate: raising setters.

sensor_set_pixformat(m, pixformat, ret) ==
    LET m1 == Call(m, "sensor_set_pixformat", <<pixformat>>, ret)
    IN  IF ret = NO_ERROR THEN [m1 EXCEPT !.sensor.pixformat = pixformat] ELSE m1

sensor_set_framerate(m, framerate, ret) ==
    LET m1 == Call(m, "sensor_set_framerate", <<framerate>>, ret)
    IN  IF ret = NO_ERROR THEN [m1 EXCEPT !.sensor.framerate = framerate] ELSE m1

py_sensor_set_pixformat(m, pixformat, env) ==
    LET m1 == sensor_set_pixformat(m, pixformat, env.ret)
    IN  IF env.ret # NO_ERROR THEN Finish(m1, sensor_raise_error(env.ret))
        ELSE Finish(m1, Returns("none"))

py_sensor_set_framerate(m, framerate, env) ==
    LET m1 == sensor_set_framerate(m, framerate, env.ret)
    IN  IF env.ret # NO_ERROR THEN Finish(m1, sensor_raise_error(env.ret))
        ELSE Finish(m1, Returns("none"))

\* sensor_set_auto_gain, sensor_set_auto_exposure, sensor_set_auto_whitebal:
\* settings of the chip that SensorState does not record
sensor_set_auto(m, fn, args, ret) == Call(m, fn, args, ret)

py_sensor_set_auto_gain(m, a, env) ==
    LET m1 == sensor_set_auto(m, "sensor_set_auto_gain", a, env.ret)
    IN  IF env.ret # NO_ERROR THEN Finish(m1, sensor_raise_error(env.ret))
        ELSE Finish(m1, Returns("none"))

py_sensor_set_auto_exposure(m, a, env) ==
    LET m1 == sensor_set_auto(m, "sensor_set_auto_exposure", a, env.ret)
    IN  IF env.ret # NO_ERROR THEN Finish(m1, sensor_raise_error(env.ret))
        ELSE Finish(m1, Returns("none"))

py_sensor_set_auto_whitebal(m, a, env) ==
    LET m1 == sensor_set_auto(m, "sensor_set_auto_whitebal", a, env.ret)
    IN  IF env.ret # NO_ERROR THEN Finish(m1, sensor_raise_error(env.ret))
        ELSE Finish(m1, Returns("none"))

----------------------------------------------------------------------------
\* The boolean-returning setters: a driver failure is the result false.

\* the image settings of the chip; SensorState records none of those modelled
sensor_set_control(m, fn, args, ret) == Call(m, fn, args, ret)

BoolResult_Raising(ret) == IF ret # NO_ERROR THEN sensor_raise_error(ret) ELSE Returns("true")

BoolResult(ret) == IF ret # NO_ERROR THEN Returns("false") ELSE Returns("true")

GainCeilings == {2, 4, 8, 16, 32, 64, 128}

py_sensor_set_gainceiling(m, gainceiling, env) ==
    IF gainceiling \notin GainCeilings
    THEN Finish(m, sensor_raise_error(SENSOR_ERROR_INVALID_ARGUMENT))
    ELSE Finish(sensor_set_control(m, "sensor_set_gainceiling", <<gainceiling>>, env.ret),
                BoolResult(env.ret))

py_sensor_set_brightness(m, brightness, env) ==
    Finish(sensor_set_control(m, "sensor_set_brightness", <<brightness>>, env.ret),
           BoolResult(env.ret))

py_sensor_set_contrast(m, contrast, env) ==
    Finish(sensor_set_control(m, "sensor_set_contrast", <<contrast>>, env.ret),
           BoolResult(env.ret))

py_sensor_set_saturation(m, saturation, env) ==
    Finish(sensor_set_control(m, "sensor_set_saturation", <<saturation>>, env.ret),
           BoolResult(env.ret))

\* the driver's quality code: 100 - q, rescaled to 0..255
QualityCode_Rounded(q) == CDiv(255 * (100 - q) + 50, 100)

QualityCode(q) == CDiv(255 * (100 - q), 100)

py_sensor_set_quality_LateCheck(m, qs, env) ==
    LET m1 == sensor_set_control(m, "sensor_set_quality", <<QualityCode(qs)>>, env.ret)
    IN  IF ~(qs >= 0 /\ qs <= 100)
        THEN Finish(m1, AssertError("Operation not supported"))
        ELSE Finish(m1, BoolResult(env.ret))

py_sensor_set_quality(m, qs, env) ==
    IF ~(qs >= 0 /\ qs <= 100)
    THEN Finish(m, AssertError("Operation not supported"))
    ELSE Finish(sensor_set_control(m, "sensor_set_quality", <<QualityCode(qs)>>, env.ret),
                BoolResult(env.ret))

py_sensor_set_colorbar(m, enable, env) ==
    Finish(sensor_set_control(m, "sensor_set_colorbar", <<enable>>, env.ret),
           BoolResult(env.ret))

py_sensor_set_special_effect(m, sde, env) ==
    Finish(sensor_set_control(m, "sensor_set_special_effect", <<sde>>, env.ret),
           BoolResult(env.ret))

py_sensor_set_lens_correction(m, a, env) ==
    Finish(sensor_set_control(m, "sensor_set_lens_correction", a, env.ret),
           BoolResult(env.ret))

\* the palette setter: the driver's return value is not looked at
ColorPalettes == {"COLOR_PALETTE_RAINBOW", "COLOR_PALETTE_IRONBOW"}

py_sensor_set_color_palette(m, palette, env) ==
    IF palette \in ColorPalettes
    THEN Finish(sensor_set_control(m, "sensor_set_color_palette", <<palette>>, env.ret),
                Returns("none"))
    ELSE Finish(m, sensor_raise_error(SENSOR_ERROR_INVALID_ARGUMENT))

----------------------------------------------------------------------------
\* Frame buffers: the buffer count and the extra frame buffer in the arena.

sensor_set_framebuffers(m, c, ret) ==
    LET m1 == Call(m, "sensor_set_framebuffers", <<c>>, ret)
    IN  IF ret = NO_ERROR THEN [m1 EXCEPT !.fb.n_buffers = c] ELSE m1

py_sensor_set_framebuffers_NoShortcut(m, c, env) ==
    IF c < 1 THEN Finish(m, sensor_raise_error(SENSOR_ERROR_INVALID_ARGUMENT))
    ELSE LET m1 == sensor_set_framebuffers(m, c, env.ret)
         IN  IF env.ret # NO_ERROR THEN Finish(m1, sensor_raise_error(env.ret))
             ELSE Finish(m1, Returns("none"))

py_sensor_set_framebuffers(m, c, env) ==
    IF m.fb.n_buffers = c THEN Finish(m, Returns("none"))
    ELSE IF c < 1 THEN Finish(m, sensor_raise_error(SENSOR_ERROR_INVALID_ARGUMENT))
    ELSE LET m1 == sensor_set_framebuffers(m, c, env.ret)
         IN  IF env.ret # NO_ERROR THEN Finish(m1, sensor_raise_error(env.ret))
             ELSE Finish(m1, Returns("none"))

\* the arena is a stack of marks and blocks; owner tells whose block it is
ArenaUsed(a) ==
    LET RECURSIVE Sum(_)
        Sum(k) == IF k = 0 THEN 0 ELSE a[k].size + Sum(k - 1)
    IN  Sum(Len(a))

fb_alloc_mark(m) ==
    [Call(m, "fb_alloc_mark", <<>>, NO_ERROR)
        EXCEPT !.arena = Append(@, [kind |-> "mark", size |-> 0, permanent |-> FALSE,
                                    owner |-> "none"])]

\* fb_alloc0 fails when the zeroed block does not fit
fb_alloc_fits(m, size) == ArenaUsed(m.arena) + size <= ArenaSize

fb_alloc0(m, size, owner) ==
    IF fb_alloc_fits(m, size)
    THEN [Call(m, "fb_alloc0", <<size>>, NO_ERROR)
            EXCEPT !.arena = Append(@, [kind |-> "block", size |-> size,
                                        permanent |-> FALSE, owner |-> owner])]
    ELSE Call(m, "fb_alloc0", <<size>>, "fb_alloc_fail")

\* positions of the marks of an arena, all of them or the permanent ones
Marks(a) == {k \in DOMAIN a : a[k].kind = "mark"}
PermanentMarks(a) == {k \in Marks(a) : a[k].permanent}
Highest(S) == CHOOSE k \in S : \A j \in S : j <= k

\* the most recent mark is promoted to permanent: it and what was allocated
\* above it become a floor that a rollback cannot cross
fb_alloc_mark_permanent(m) ==
    LET m1 == Call(m, "fb_alloc_mark_permanent", <<>>, NO_ERROR)
    IN  IF Marks(m.arena) # {}
        THEN LET n == Highest(Marks(m.arena))
             IN  [m1 EXCEPT !.arena = [k \in DOMAIN @ |->
                                         IF k >= n THEN [@[k] EXCEPT !.permanent = TRUE]
                                         ELSE @[k]]]
        ELSE m1

\* the ordinary rollback: pop entries down to and including the last ordinary
\* mark, never crossing a permanent entry
RECURSIVE PopTillMark(_)
PopTillMark(a) ==
    IF a = <<>> THEN a
    ELSE IF a[Len(a)].permanent THEN a
    ELSE IF a[Len(a)].kind = "mark" THEN SubSeq(a, 1, Len(a) - 1)
    ELSE PopTillMark(SubSeq(a, 1, Len(a) - 1))

fb_alloc_free_till_mark(m) == [m EXCEPT !.arena = PopTillMark(@)]

\* pop entries down to and including the nearest mark, permanent or not
RECURSIVE PopPastMark(_)
PopPastMark(a) ==
    IF a = <<>> THEN a
    ELSE IF a[Len(a)].kind = "mark" THEN SubSeq(a, 1, Len(a) - 1)
    ELSE PopPastMark(SubSeq(a, 1, Len(a) - 1))

\* pop the arena back past the most recent permanent mark; with no permanent
\* mark, past the nearest mark
fb_alloc_free_till_mark_past_mark_permanent(m) ==
    [Call(m, "fb_alloc_free_till_mark_past_mark_permanent", <<>>, NO_ERROR)
        EXCEPT !.arena = IF PermanentMarks(@) # {}
                         THEN SubSeq(@, 1, Highest(PermanentMarks(@)) - 1)
                         ELSE PopPastMark(@)]

\* IMLIB_PIXFORMAT_IS_VALID and image_size, for the formats modelled
IMLIB_PIXFORMAT_IS_VALID(pixfmt) == pixfmt \in PixFormats
image_size(w, h, pixfmt) == IF pixfmt = "PIXFORMAT_RGB565" THEN w * h * 2 ELSE w * h

\* py_image_from_struct allocates the handle on the heap, which may be full
py_image_from_struct(m, heap_ok) ==
    Call(m, "py_image_from_struct", <<>>, IF heap_ok THEN NO_ERROR ELSE "MemoryError")

py_sensor_alloc_extra_fb_StorageFirst(m, w, h, pixfmt, env) ==
    IF ~(w > 0) THEN Finish(m, AssertError("Width must be > 0"))
    ELSE IF ~(h > 0) THEN Finish(m, AssertError("Height must be > 0"))
    ELSE IF ~IMLIB_PIXFORMAT_IS_VALID(pixfmt)
    THEN Finish(m, AssertError("Invalid Pixel Format"))
    ELSE
    LET m1 == fb_alloc_mark(m)
        size == image_size(w, h, pixfmt)
        m2 == fb_alloc0(m1, size, "extra")
    IN  IF ~fb_alloc_fits(m1, size) THEN Finish(m2, MemoryError)
        ELSE
        LET m3 == py_image_from_struct(m2, env.heap_ok)
        IN  IF ~env.heap_ok THEN Finish(m3, MemoryError)
            ELSE Finish(fb_alloc_mark_permanent(m3), Returns("image"))

py_sensor_alloc_extra_fb_NoPromote(m, w, h, pixfmt, env) ==
    IF ~(w > 0) THEN Finish(m, AssertError("Width must be > 0"))
    ELSE IF ~(h > 0) THEN Finish(m, AssertError("Height must be > 0"))
    ELSE IF ~IMLIB_PIXFORMAT_IS_VALID(pixfmt)
    THEN Finish(m, AssertError("Invalid Pixel Format"))
    ELSE
    LET m1 == py_image_from_struct(m, env.heap_ok)
    IN  IF ~env.heap_ok THEN Finish(m1, MemoryError)
        ELSE
        LET m2 == fb_alloc_mark(m1)
            size == image_size(w, h, pixfmt)
            m3 == fb_alloc0(m2, size, "extra")
        IN  IF ~fb_alloc_fits(m2, size) THEN Finish(m3, MemoryError)
            ELSE Finish(m3, Returns("image"))

py_sensor_alloc_extra_fb(m, w, h, pixfmt, env) ==
    IF ~(w > 0) THEN Finish(m, AssertError("Width must be > 0"))
    ELSE IF ~(h > 0) THEN Finish(m, AssertError("Height must be > 0"))
    ELSE IF ~IMLIB_PIXFORMAT_IS_VALID(pixfmt)
    THEN Finish(m, AssertError("Invalid Pixel Format"))
    ELSE
    LET m1 == py_image_from_struct(m, env.heap_ok)
    IN  IF ~env.heap_ok THEN Finish(m1, MemoryError)
        ELSE
        LET m2 == fb_alloc_mark(m1)
            size == image_size(w, h, pixfmt)
            m3 == fb_alloc0(m2, size, "extra")
        IN  IF ~fb_alloc_fits(m2, size) THEN Finish(m3, MemoryError)
            ELSE Finish(fb_alloc_mark_permanent(m3), Returns("image"))

py_sensor_dealloc_extra_fb_Ordinary(m) ==
    Finish(fb_alloc_free_till_mark(
               Call(m, "fb_alloc_free_till_mark", <<>>, NO_ERROR)), Returns("none"))

py_sensor_dealloc_extra_fb(m) ==
    Finish(fb_alloc_free_till_mark_past_mark_permanent(m), Returns("none"))

----------------------------------------------------------------------------
\* The vendor ioctl multiplexer.

\* requests whose case is compiled in only with OMV_ENABLE_OV5640_AF
AfPlainRequests ==
    {"IOCTL_TRIGGER_AUTO_FOCUS", "IOCTL_PAUSE_AUTO_FOCUS", "IOCTL_RESET_AUTO_FOCUS"}
AfWaitRequests == {"IOCTL_WAIT_ON_AUTO_FOCUS"}
\* requests whose case is compiled in only with OMV_ENABLE_HM01B0
HimaxWindowRequests == {"IOCTL_HIMAX_MD_WINDOW"}
HimaxIntRequests ==
    {"IOCTL_HIMAX_MD_ENABLE", "IOCTL_HIMAX_MD_THRESHOLD", "IOCTL_HIMAX_OSC_ENABLE"}
HimaxPlainRequests == {"IOCTL_HIMAX_MD_CLEAR"}

\* requests by the shape of their case
WindowRequests == {"IOCTL_SET_READOUT_WINDOW"}
IntRequests == {"IOCTL_SET_TRIGGERED_MODE", "IOCTL_LEPTON_RUN_COMMAND"}
GetIntRequests ==
    {"IOCTL_LEPTON_GET_WIDTH", "IOCTL_LEPTON_GET_HEIGHT", "IOCTL_LEPTON_GET_RADIOMETRY",
     "IOCTL_LEPTON_GET_REFRESH", "IOCTL_LEPTON_GET_RESOLUTION"}
GetBoolRequests == {"IOCTL_GET_TRIGGERED_MODE"}
GetWindowRequests == {"IOCTL_GET_READOUT_WINDOW"}
TemperatureRequests ==
    {"IOCTL_LEPTON_GET_FPA_TEMPERATURE", "IOCTL_LEPTON_GET_AUX_TEMPERATURE"}
GetPairRequests ==
    {"IOCTL_LEPTON_GET_MEASUREMENT_MODE", "IOCTL_LEPTON_GET_MEASUREMENT_RANGE"}

\* the requests the switch has a case for in this build
CompiledRequests ==
    WindowRequests \cup IntRequests \cup GetIntRequests \cup GetBoolRequests
    \cup GetWindowRequests \cup TemperatureRequests \cup GetPairRequests
    \cup {"IOCTL_LEPTON_SET_ATTRIBUTE", "IOCTL_LEPTON_GET_ATTRIBUTE",
          "IOCTL_LEPTON_SET_MEASUREMENT_MODE", "IOCTL_LEPTON_SET_MEASUREMENT_RANGE"}
    \cup (IF build.af THEN AfPlainRequests \cup AfWaitRequests ELSE {})
    \cup (IF build.hm01b0
          THEN HimaxWindowRequests \cup HimaxIntRequests \cup HimaxPlainRequests
          ELSE {})

\* the driver's ioctl: changes no field of SensorState that the model records
sensor_ioctl(m, request, args, ret) == Call(m, "sensor_ioctl", <<request>> \o args, ret)

\* the end of py_sensor_ioctl: a nonzero error is raised, else ret_obj returned
IoctlEnd(m, error, ret_obj) ==
    IF error # NO_ERROR THEN Finish(m, sensor_raise_error(error)) ELSE Finish(m, ret_obj)

\* a call of the driver that passes args and, on success, returns ret_obj
IoctlCall(m, request, args, env, ret_obj) ==
    IoctlEnd(sensor_ioctl(m, request, args, env.ret), env.ret, ret_obj)

IoctlNoCall_Unset(m) == IoctlEnd(m, NO_ERROR, Returns("none"))

\* no driver call was made: error still holds its initial value
IoctlNoCall(m) == IoctlEnd(m, SENSOR_ERROR_INVALID_ARGUMENT, Returns("none"))

\* centi-Kelvin to hundredths of a degree Celsius: (raw/100) - 273.15
CelsiusHundredths(raw) == raw - 27315

\* words of a payload of data_len bytes: data_len / sizeof(uint16_t)
PayloadWords(data_len) == CDiv(data_len, 2)

\* a.n_args counts the request; a.array holds the values of the tuple args[1],
\* a.v the integers args[1] and args[2], a.data_len the byte length of the
\* payload args[2] or the word count args[2].  env.out is what the driver
\* writes to its out-parameters.
py_sensor_ioctl(m, a, env) ==
    LET request == a.request
        n_args == a.n_args
    IN
    CASE request \in WindowRequests
            \/ (build.hm01b0 /\ request \in HimaxWindowRequests) ->
            IF n_args >= 2
            THEN IF Len(a.array) = 4
                 THEN IoctlCall(m, request, a.array, env, Returns("none"))
                 ELSE IF Len(a.array) = 2
                 THEN IoctlCall(m, request, <<0, 0>> \o a.array, env, Returns("none"))
                 ELSE Finish(m, ValueError("The tuple/list must either be (x, y, w, h) or (w, h)"))
            ELSE IoctlNoCall(m)
      [] request \in GetWindowRequests ->
            IoctlCall(m, request, <<>>, env, ReturnsValue(env.out))
      [] request \in IntRequests
            \/ (build.hm01b0 /\ request \in HimaxIntRequests) ->
            IF n_args >= 2
            THEN IoctlCall(m, request, <<a.v[1]>>, env, Returns("none"))
            ELSE IoctlNoCall(m)
      [] request \in GetBoolRequests ->
            IoctlCall(m, request, <<>>, env, ReturnsValue(<<env.out[1] # 0>>))
      [] (build.af /\ request \in AfPlainRequests)
            \/ (build.hm01b0 /\ request \in HimaxPlainRequests) ->
            IoctlCall(m, request, <<>>, env, Returns("none"))
      [] build.af /\ request \in AfWaitRequests ->
            IoctlCall(m, request, <<IF n_args < 2 THEN 5000 ELSE a.v[1]>>, env,
                      Returns("none"))
      [] request \in GetIntRequests ->
            IoctlCall(m, request, <<>>, env, ReturnsValue(<<env.out[1]>>))
      [] request = "IOCTL_LEPTON_SET_ATTRIBUTE" ->
            IF n_args >= 3
            THEN IF ~(a.data_len > 0)
                 THEN Finish(m, AssertError("0 bytes transferred!"))
                 ELSE IoctlCall(m, request, <<a.v[1], PayloadWords(a.data_len)>>, env,
                                Returns("none"))
            ELSE IoctlNoCall(m)
      [] request = "IOCTL_LEPTON_GET_ATTRIBUTE" ->
            IF n_args >= 3
            THEN IF ~(a.data_len > 0)
                 THEN Finish(m, AssertError("0 bytes transferred!"))
                 ELSE IF ~env.heap_ok
                 THEN Finish(Call(m, "xalloc", <<a.data_len * 2>>, "MemoryError"),
                             MemoryError)
                 ELSE IoctlCall(Call(m, "xalloc", <<a.data_len * 2>>, NO_ERROR),
                                request, <<a.v[1], a.data_len>>, env,
                                ReturnsValue(<<"bytearray", a.data_len * 2>>))
            ELSE IoctlNoCall(m)
      [] request \in TemperatureRequests ->
            IoctlCall(m, request, <<>>, env,
                      ReturnsValue(<<CelsiusHundredths(env.out[1])>>))
      [] request = "IOCTL_LEPTON_SET_MEASUREMENT_MODE" ->
            IF n_args >= 2
            THEN IoctlCall(m, request, <<a.v[1], IF n_args = 2 THEN 0 ELSE a.v[2]>>,
                           env, Returns("none"))
            ELSE IoctlNoCall(m)
      [] request \in GetPairRequests ->
            IoctlCall(m, request, <<>>, env, ReturnsValue(<<env.out[1], env.out[2]>>))
      [] request = "IOCTL_LEPTON_SET_MEASUREMENT_RANGE" ->
            IF n_args >= 3
            THEN IoctlCall(m, request, <<a.v[1], a.v[2]>>, env, Returns("none"))
            ELSE IoctlNoCall(m)
      [] OTHER -> Finish(m, sensor_raise_error(SENSOR_ERROR_CTL_UNSUPPORTED))

----------------------------------------------------------------------------
\* skip_frames: the loop runs one iteration per step, a capture taking time.

ClockWrap == 2 ^ ClockBits
\* an integer converted to the unsigned type of the counter
ToUnsigned(n) == n % ClockWrap
\* mp_hal_ticks_ms() - millis, in unsigned arithmetic
Elapsed(now, millis) == (now - millis) % ClockWrap

\* entry remembers the SensorState the call started from and frames counts its
\* captures; both stay readable until the next operation
SkipIdle ==
    [pc |-> "idle", n_args |-> 0, j |-> 0, i |-> 0, kw |-> FALSE, time |-> 300,
     millis |-> 0, frames |-> 0, entry |-> <<>>]

SkipContinues_NoBudget(sk, now) ==
    IF sk.n_args = 0
    THEN Elapsed(now, sk.millis) < ToUnsigned(sk.time)
    ELSE sk.i < sk.j

\* the loop condition of the call in progress, read at the current time
SkipContinues(sk, now) ==
    IF sk.n_args = 0
    THEN Elapsed(now, sk.millis) < ToUnsigned(sk.time)
    ELSE /\ sk.i < sk.j
         /\ ~(sk.kw /\ (Elapsed(now, sk.millis) >= ToUnsigned(sk.time)))

----------------------------------------------------------------------------
\* Inputs.

Coords == (0 - MaxCoord)..MaxCoord

Levels == (0 - MaxLevel)..MaxLevel

\* every quality value of [0,100], and the values next to its ends
Qualities == (0 - 1)..101

\* argument lists of set_windowing: 1 to 4 arguments, one argument being a
\* tuple or list of any length
WinArgs ==
    {[n_args |-> n, array |-> s] :
        n \in {1, 2}, s \in [1..2 -> Coords]}
    \cup {[n_args |-> n, array |-> s] :
        n \in {1, 4}, s \in [1..4 -> Coords]}
    \cup {[n_args |-> 1, array |-> [i \in 1..k |-> 1]] : k \in {0, 1, 3, 5}}
    \cup {[n_args |-> 3, array |-> <<1, 1, 1>>]}

PitchThresholds == {90 - 10, 90 + 10, 270 - 10, 270 + 10}
Pitches ==
    {0, 90, 270}
    \cup {t + d : t \in PitchThresholds, d \in (0 - AngleSlack)..AngleSlack}

RollCenters == {0, 90, 180, 270, 360}
RollThresholds ==
    {c + z : c \in RollCenters, z \in {0 - 45, 0 - 35, 35, 45}}
Rolls ==
    (RollCenters \cup {359}
     \cup {t + d : t \in RollThresholds, d \in (0 - AngleSlack)..AngleSlack})
    \cap 0..359

\* every request code of sensor.h, and one that is none of them
AllRequests ==
    WindowRequests \cup IntRequests \cup GetIntRequests \cup GetBoolRequests
    \cup GetWindowRequests \cup TemperatureRequests \cup GetPairRequests
    \cup {"IOCTL_LEPTON_SET_ATTRIBUTE", "IOCTL_LEPTON_GET_ATTRIBUTE",
          "IOCTL_LEPTON_SET_MEASUREMENT_MODE", "IOCTL_LEPTON_SET_MEASUREMENT_RANGE"}
    \cup AfPlainRequests \cup AfWaitRequests
    \cup HimaxWindowRequests \cup HimaxIntRequests \cup HimaxPlainRequests
    \cup {"IOCTL_UNKNOWN"}

IoctlArity == 1..MaxArgs

\* argument lists of ioctl: what varies is what the request's case reads
IoctlArgs ==
    [request : WindowRequests \cup HimaxWindowRequests, n_args : IoctlArity,
     array : {[i \in 1..k |-> i] : k \in 0..5}, v : {<<1, 1>>}, data_len : {0}]
    \cup [request : {"IOCTL_LEPTON_SET_ATTRIBUTE", "IOCTL_LEPTON_GET_ATTRIBUTE"},
          n_args : IoctlArity, array : {<<>>}, v : {<<1, 1>>}, data_len : 0..MaxData]
    \cup [request : AllRequests, n_args : IoctlArity,
          array : {<<>>}, v : {<<1, 0>>}, data_len : {0}]

\* what the environment answers during an ioctl: the driver's return code and
\* out-parameters, and whether the heap has room
IoctlEnvs ==
    [ret : DriverCodes, heap_ok : {TRUE}, out : {<<30000, 2, 3, 4>>}]
    \cup [ret : {NO_ERROR}, heap_ok : {FALSE}, out : {<<30000, 2, 3, 4>>}]

\* skip_frames: counts, time budgets, and how long a capture takes
SkipCounts == {0 - 1, 0, 2, 5}
SkipTimes == {0 - 1, 0, 300}
TickSteps == {0, ClockWrap \div 4}
\* argument lists of skip_frames: a count or none, a time keyword or none
SkipArgs ==
    [n_args : {0}, j : {0}, kw : {FALSE}, time : {300}]
    \cup [n_args : {0}, j : {0}, kw : {TRUE}, time : SkipTimes]
    \cup [n_args : {1}, j : SkipCounts, kw : {FALSE}, time : {300}]
    \cup [n_args : {1}, j : SkipCounts, kw : {TRUE}, time : SkipTimes]
NoSkipReq == [n_args |-> 1, j |-> 0, kw |-> FALSE, time |-> 300]

\* orientations: every pitch at a few rolls, every roll at a few pitches
Orientations ==
    [pitch : Pitches, roll : {0, 40}]
    \cup [pitch : {0, 90 - 10}, roll : Rolls]

\* active-zone half-widths: none, the normal ones up to 45, and just beyond
ActiveZones == 0..(45 + AngleSlack)

\* what the environment answers during a reset or a snapshot: the IMU's
\* readings and the driver's return codes
RotEnvs(chips) ==
    [pitch : {imu.pitch}, roll : {imu.roll}, rc : [1..3 -> DriverCodes],
     ret : DriverCodes, chip_auto : chips]

----------------------------------------------------------------------------
\* The callback slots. A script passes any object; the slot keeps a callable
\* and is emptied by anything else.

mp_const_none == "None"
Callables == {"f", "g"}
CallbackObjects == Callables \cup {mp_const_none, "int"}
mp_obj_is_callable(o) == o \in Callables

\* no handler: the driver keeps the event source disabled
NULL == "NULL"

\* what a registration of obj leaves in the slot
SlotAfter_Keep(obj) == obj
SlotAfter(obj) == IF ~mp_obj_is_callable(obj) THEN mp_const_none ELSE obj

\* what a registration of obj hands to the driver
HandlerFor(obj, trampoline) == IF ~mp_obj_is_callable(obj) THEN NULL ELSE trampoline

\* sensor_vsync_callback, sensor_frame_callback: the trampoline calls what the
\* slot holds when the event arrives, if that is callable
\* (event tells one event from the next: it alternates)
Trampoline_Unchecked(source, slot) ==
    [source |-> source, fn |-> slot, event |-> 1 - invoked.event]

Trampoline(source, slot) ==
    [source |-> source, fn |-> IF mp_obj_is_callable(slot) THEN slot ELSE "nothing",
     event |-> 1 - invoked.event]

RegIdle == [pc |-> "idle", vsync |-> mp_const_none, frame |-> mp_const_none]

----------------------------------------------------------------------------
\* Actions: each runs one facade operation to its end.

Commit(name, args, m) ==
    /\ skip.pc = "idle"
    /\ reg.pc = "idle"
    /\ op' = [name |-> name, args |-> args, arena0 |-> arena]
    /\ sensor' = m.sensor
    /\ fb' = m.fb
    /\ arena' = m.arena
    /\ calls' = m.calls
    /\ result' = m.result
    /\ skip' = SkipIdle
    /\ UNCHANGED <<build, imu, zone, winreq, skipreq, session, clock>>
    /\ UNCHANGED cbvars

Reset ==
    /\ \E env \in RotEnvs(BOOLEAN) :
        Commit("reset", <<>>, py_sensor_reset(Machine, env))

Snapshot ==
    /\ session \in {"orientation", "capture"}
    /\ \E env \in RotEnvs({FALSE}) :
        Commit("snapshot", <<>>, py_sensor_snapshot(Machine, env))

SetHmirror ==
    /\ session \in {"orientation"}
    /\ \E enable \in BOOLEAN, ret \in DriverCodes :
        Commit("set_hmirror", <<enable>>,
               py_sensor_set_hmirror(Machine, enable, [ret |-> ret]))

SetVflip ==
    /\ session \in {"orientation"}
    /\ \E enable \in BOOLEAN, ret \in DriverCodes :
        Commit("set_vflip", <<enable>>,
               py_sensor_set_vflip(Machine, enable, [ret |-> ret]))

SetTranspose ==
    /\ session \in {"orientation"}
    /\ \E enable \in BOOLEAN, ret \in DriverCodes :
        Commit("set_transpose", <<enable>>,
               py_sensor_set_transpose(Machine, enable, [ret |-> ret]))

SetAutoRotation ==
    /\ session \in {"orientation", "capture", "sectors"}
    /\ \E enable \in BOOLEAN, ret \in DriverCodes :
        Commit("set_auto_rotation", <<enable>>,
               py_sensor_set_auto_rotation(Machine, enable, [ret |-> ret]))

SetFramesize ==
    /\ session \in {"geometry"}
    /\ \E framesize \in FrameSizes, ret \in DriverCodes :
        Commit("set_framesize", <<framesize>>,
               py_sensor_set_framesize(Machine, framesize, [ret |-> ret]))

SetWindowing ==
    /\ session \in {"geometry"}
    /\ \E ret \in DriverCodes :
        Commit("set_windowing", winreq,
               py_sensor_set_windowing(Machine, winreq, [ret |-> ret]))

GetWindowing ==
    /\ session \in {"geometry"}
    /\ Commit("get_windowing", <<>>, py_sensor_get_windowing(Machine))

\* an unsupported pixel format or frame rate is refused by the driver
SetPixformat ==
    /\ session \in {"format"}
    /\ \E pixformat \in PixFormats \cup {"PIXFORMAT_UNKNOWN"}, ret \in DriverCodes :
        /\ (pixformat \notin PixFormats => ret # NO_ERROR)
        /\ Commit("set_pixformat", <<pixformat>>,
                  py_sensor_set_pixformat(Machine, pixformat, [ret |-> ret]))

SetFramerate ==
    /\ session \in {"format"}
    /\ \E framerate \in {15, 30}, ret \in DriverCodes :
        Commit("set_framerate", <<framerate>>,
               py_sensor_set_framerate(Machine, framerate, [ret |-> ret]))

SetAutoGain ==
    /\ session \in {"format"}
    /\ \E enable \in {0, 1}, ret \in DriverCodes :
        Commit("set_auto_gain", <<enable>>,
               py_sensor_set_auto_gain(Machine, <<enable>>, [ret |-> ret]))

SetAutoExposure ==
    /\ session \in {"format"}
    /\ \E enable \in {0, 1}, ret \in DriverCodes :
        Commit("set_auto_exposure", <<enable>>,
               py_sensor_set_auto_exposure(Machine, <<enable, 0 - 1>>, [ret |-> ret]))

SetAutoWhitebal ==
    /\ session \in {"format"}
    /\ \E enable \in {0, 1}, ret \in DriverCodes :
        Commit("set_auto_whitebal", <<enable>>,
               py_sensor_set_auto_whitebal(Machine, <<enable>>, [ret |-> ret]))

SetGainceiling ==
    /\ session \in {"controls"}
    /\ \E gainceiling \in GainCeilings \cup {0, 3, 256}, ret \in DriverCodes :
        Commit("set_gainceiling", <<gainceiling>>,
               py_sensor_set_gainceiling(Machine, gainceiling, [ret |-> ret]))

SetBrightness ==
    /\ session \in {"controls"}
    /\ \E brightness \in Levels, ret \in DriverCodes :
        Commit("set_brightness", <<brightness>>,
               py_sensor_set_brightness(Machine, brightness, [ret |-> ret]))

SetContrast ==
    /\ session \in {"controls"}
    /\ \E contrast \in Levels, ret \in DriverCodes :
        Commit("set_contrast", <<contrast>>,
               py_sensor_set_contrast(Machine, contrast, [ret |-> ret]))

SetSaturation ==
    /\ session \in {"controls"}
    /\ \E saturation \in Levels, ret \in DriverCodes :
        Commit("set_saturation", <<saturation>>,
               py_sensor_set_saturation(Machine, saturation, [ret |-> ret]))

SetQuality ==
    /\ session \in {"controls"}
    /\ \E qs \in Qualities, ret \in DriverCodes :
        Commit("set_quality", <<qs>>,
               py_sensor_set_quality(Machine, qs, [ret |-> ret]))

SetColorbar ==
    /\ session \in {"controls"}
    /\ \E enable \in BOOLEAN, ret \in DriverCodes :
        Commit("set_colorbar", <<enable>>,
               py_sensor_set_colorbar(Machine, enable, [ret |-> ret]))

SetSpecialEffect ==
    /\ session \in {"controls"}
    /\ \E sde \in Levels, ret \in DriverCodes :
        Commit("set_special_effect", <<sde>>,
               py_sensor_set_special_effect(Machine, sde, [ret |-> ret]))

SetLensCorrection ==
    /\ session \in {"controls"}
    /\ \E enable \in BOOLEAN, radi \in Levels, ret \in DriverCodes :
        Commit("set_lens_correction", <<enable, radi, 0>>,
               py_sensor_set_lens_correction(Machine, <<enable, radi, 0>>, [ret |-> ret]))

SetColorPalette ==
    /\ session \in {"controls"}
    /\ \E palette \in ColorPalettes \cup {"COLOR_PALETTE_UNKNOWN"}, ret \in DriverCodes :
        Commit("set_color_palette", <<palette>>,
               py_sensor_set_color_palette(Machine, palette, [ret |-> ret]))

SetFramebuffers ==
    /\ session \in {"buffers"}
    /\ \E c \in (0 - 1)..MaxBuffers, ret \in DriverCodes :
        Commit("set_framebuffers", <<c>>,
               py_sensor_set_framebuffers(Machine, c, [ret |-> ret]))

\* the buffers session holds one extra buffer at a time, the arena session
\* nests them
AllocExtraFb ==
    /\ session \in {"buffers", "arena"}
    /\ IF session = "arena" THEN Len(arena) < MaxArena ELSE arena = <<>>
    /\ \E w \in 0..MaxSide, h \in 0..MaxSide,
          pixfmt \in PixFormats \cup {"PIXFORMAT_UNKNOWN"}, heap_ok \in BOOLEAN :
        Commit("alloc_extra_fb", <<w, h, pixfmt>>,
               py_sensor_alloc_extra_fb(Machine, w, h, pixfmt, [heap_ok |-> heap_ok]))

\* the call: read the keyword, take the start time, enter the loop
SkipFrames ==
    /\ session \in {"capture"}
    /\ skip.pc = "idle"
    /\ skip' = [pc |-> "loop", n_args |-> skipreq.n_args, j |-> skipreq.j, i |-> 0,
                kw |-> skipreq.kw, time |-> IF skipreq.kw THEN skipreq.time ELSE 300,
                millis |-> clock, frames |-> 0, entry |-> <<sensor, fb>>]
    /\ op' = [name |-> "skip_frames", args |-> skipreq, arena0 |-> arena]
    /\ calls' = <<>>
    /\ result' = Returns("running")
    /\ UNCHANGED <<sensor, fb, arena, build, imu, zone, winreq, skipreq, session, clock>>
    /\ UNCHANGED cbvars

\* one test of the loop condition and, if it holds, one py_sensor_snapshot
SkipFramesStep ==
    /\ skip.pc = "loop"
    /\ IF SkipContinues(skip, clock)
       THEN /\ skip.frames < MaxFrames
            /\ \E env \in RotEnvs({FALSE}), d \in TickSteps :
                LET m == py_sensor_snapshot(Machine, env)
                IN  /\ sensor' = m.sensor
                    /\ calls' = m.calls
                    /\ clock' = (clock + d) % ClockWrap
                    /\ IF Raised(m.result)
                       THEN /\ result' = m.result
                            /\ skip' = [skip EXCEPT !.pc = "idle", !.frames = @ + 1]
                       ELSE /\ result' = Returns("running")
                            /\ skip' = [skip EXCEPT !.i = @ + 1, !.frames = @ + 1]
       ELSE /\ result' = Returns("none")
            /\ skip' = [skip EXCEPT !.pc = "idle"]
            /\ UNCHANGED <<sensor, calls, clock>>
    /\ UNCHANGED <<fb, arena, build, imu, zone, winreq, skipreq, session, op>>
    /\ UNCHANGED cbvars

Ioctl ==
    /\ session \in {"ioctl"}
    /\ \E a \in IoctlArgs, env \in IoctlEnvs :
        Commit("ioctl", a, py_sensor_ioctl(Machine, a, env))

DeallocExtraFb ==
    /\ session \in {"buffers", "arena"}
    /\ Commit("dealloc_extra_fb", <<>>, py_sensor_dealloc_extra_fb(Machine))

\* the rest of the system uses the arena too: it marks, allocates, and on an
\* error rolls back; args of a rollback is the number of entries it released
ArenaMark ==
    /\ session \in {"arena"}
    /\ Len(arena) < MaxArena
    /\ Commit("fb_alloc_mark", <<>>, [fb_alloc_mark(Machine) EXCEPT !.calls = <<>>])

ArenaAlloc ==
    /\ session \in {"arena"}
    /\ Len(arena) < MaxArena
    /\ fb_alloc_fits(Machine, 1)
    /\ Commit("fb_alloc", <<1>>, [fb_alloc0(Machine, 1, "other") EXCEPT !.calls = <<>>])

ArenaRollback ==
    /\ session \in {"arena"}
    /\ LET m == fb_alloc_free_till_mark(Machine)
       IN  Commit("fb_alloc_free_till_mark", <<Len(arena) - Len(m.arena)>>, m)

\* the orientation correction on its own, with the active zone of the session
DoAutoRotation ==
    /\ session \in {"sectors"}
    /\ \E env \in RotEnvs({FALSE}) :
        /\ env.ret = NO_ERROR
        /\ env.rc[1] = env.rc[2] /\ env.rc[2] = env.rc[3]
        /\ Commit("do_auto_rotation", <<10, zone>>, AutoRotationStep(Machine, 10, zone, env))

\* A registration writes the slot, then tells the driver; a hardware event may
\* arrive between the two.
SetVsyncCallback ==
    /\ session \in {"callbacks"}
    /\ skip.pc = "idle"
    /\ reg.pc = "idle"
    /\ \E vsync_callback_obj \in CallbackObjects :
        /\ vsync_callback' = SlotAfter(vsync_callback_obj)
        /\ reg' = [reg EXCEPT !.pc = "vsync", !.vsync = vsync_callback_obj]
        /\ op' = [name |-> "set_vsync_callback", args |-> <<vsync_callback_obj>>,
                  arena0 |-> arena]
    /\ calls' = <<>>
    /\ result' = Returns("running")
    /\ UNCHANGED <<sensor, fb, arena, build, imu, zone, winreq, skipreq, session, clock, skip>>
    /\ UNCHANGED <<frame_callback, irq, invoked>>

SetVsyncCallbackDriver ==
    /\ reg.pc = "vsync"
    /\ LET fn == HandlerFor(reg.vsync, "sensor_vsync_callback")
       IN  /\ irq' = [irq EXCEPT !.vsync = fn]
           /\ calls' = <<<<"sensor_set_vsync_callback", <<fn>>, NO_ERROR>>>>
    /\ reg' = [reg EXCEPT !.pc = "idle"]
    /\ result' = Returns("none")
    /\ UNCHANGED <<sensor, fb, arena, build, imu, zone, winreq, skipreq, session, clock, skip>>
    /\ UNCHANGED <<vsync_callback, frame_callback, invoked, op>>

SetFrameCallback ==
    /\ session \in {"callbacks"}
    /\ skip.pc = "idle"
    /\ reg.pc = "idle"
    /\ \E frame_callback_obj \in CallbackObjects :
        /\ frame_callback' = SlotAfter(frame_callback_obj)
        /\ reg' = [reg EXCEPT !.pc = "frame", !.frame = frame_callback_obj]
        /\ op' = [name |-> "set_frame_callback", args |-> <<frame_callback_obj>>,
                  arena0 |-> arena]
    /\ calls' = <<>>
    /\ result' = Returns("running")
    /\ UNCHANGED <<sensor, fb, arena, build, imu, zone, winreq, skipreq, session, clock, skip>>
    /\ UNCHANGED <<vsync_callback, irq, invoked>>

SetFrameCallbackDriver ==
    /\ reg.pc = "frame"
    /\ LET fn == HandlerFor(reg.frame, "sensor_frame_callback")
       IN  /\ irq' = [irq EXCEPT !.frame = fn]
           /\ calls' = <<<<"sensor_set_frame_callback", <<fn>>, NO_ERROR>>>>
    /\ reg' = [reg EXCEPT !.pc = "idle"]
    /\ result' = Returns("none")
    /\ UNCHANGED <<sensor, fb, arena, build, imu, zone, winreq, skipreq, session, clock, skip>>
    /\ UNCHANGED <<vsync_callback, frame_callback, invoked, op>>

\* the host fires an event of an enabled source: the driver runs its handler
VsyncEvent ==
    /\ session \in {"callbacks"}
    /\ irq.vsync # NULL
    /\ invoked' = Trampoline("vsync", vsync_callback)
    /\ UNCHANGED <<sensor, fb, arena, build, imu, zone, winreq, skipreq, session, clock, skip>>
    /\ UNCHANGED <<vsync_callback, frame_callback, irq, reg, op, calls, result>>

FrameEvent ==
    /\ session \in {"callbacks"}
    /\ irq.frame # NULL
    /\ invoked' = Trampoline("frame", frame_callback)
    /\ UNCHANGED <<sensor, fb, arena, build, imu, zone, winreq, skipreq, session, clock, skip>>
    /\ UNCHANGED <<vsync_callback, frame_callback, irq, reg, op, calls, result>>

----------------------------------------------------------------------------
\* Specifications.

Builds == [imu : BOOLEAN, af : BOOLEAN, hm01b0 : BOOLEAN]

InitWith(sessions, builds, orientations, winreqs) ==
    /\ session \in sessions
    /\ skipreq \in (IF session = "capture" THEN SkipArgs ELSE {NoSkipReq})
    /\ clock \in (IF session = "capture" THEN {0, ClockWrap - 1} ELSE {0})
    /\ skip = SkipIdle
    /\ vsync_callback = mp_const_none
    /\ frame_callback = mp_const_none
    /\ irq = [vsync |-> NULL, frame |-> NULL]
    /\ reg = RegIdle
    /\ invoked = [source |-> "none", fn |-> "nothing", event |-> 0]
    /\ sensor = SensorInit
    /\ fb = FbInit
    /\ arena = <<>>
    /\ build \in builds
    /\ imu \in orientations
    /\ zone \in (IF session = "sectors" THEN ActiveZones ELSE {45})
    /\ winreq \in winreqs
    /\ op = [name |-> "init", args |-> <<>>, arena0 |-> <<>>]
    /\ calls = <<>>
    /\ result = Returns("none")

\* the windowing resolver
Upright == [pitch |-> 0, roll |-> 0]
NoWinReq == [n_args |-> 1, array |-> <<>>]
InitWin == InitWith({"geometry"}, {b \in Builds : b.imu /\ ~b.af /\ ~b.hm01b0}, {Upright}, WinArgs)
NextWin == SetFramesize \/ SetWindowing \/ GetWindowing
SpecWin == InitWin /\ [][NextWin]_vars

\* the whole control surface, one part of it per session
Sessions ==
    {"orientation", "capture", "geometry", "format", "controls", "buffers", "ioctl",
     "callbacks"}
FewOrientations ==
    {[pitch |-> 0, roll |-> 0], [pitch |-> 0, roll |-> 40],
     [pitch |-> 0, roll |-> 180], [pitch |-> 90, roll |-> 270]}
FewWinReqs ==
    {NoWinReq, [n_args |-> 2, array |-> <<1, 1>>], [n_args |-> 4, array |-> <<3, 0 - 1, 3, 2>>],
     [n_args |-> 1, array |-> <<4, 4, 1, 1>>], [n_args |-> 1, array |-> <<0, 1>>],
     [n_args |-> 3, array |-> <<1, 1, 1>>]}
FewSkipReqs ==
    {NoSkipReq, [n_args |-> 0, j |-> 0, kw |-> FALSE, time |-> 300],
     [n_args |-> 1, j |-> 2, kw |-> TRUE, time |-> 300]}
Init ==
    /\ InitWith(Sessions, {b \in Builds : b.imu}, FewOrientations, FewWinReqs)
    /\ session # "orientation" /\ session # "capture" => imu = Upright
    /\ session # "geometry" => winreq = NoWinReq
    /\ session # "ioctl" => ~build.af /\ ~build.hm01b0
    /\ build.af = build.hm01b0
    /\ clock = 0
    /\ skipreq \in FewSkipReqs
Next ==
    \/ Reset
    \/ Snapshot
    \/ SkipFrames
    \/ SkipFramesStep
    \/ SetAutoRotation
    \/ SetHmirror
    \/ SetVflip
    \/ SetTranspose
    \/ SetFramesize
    \/ SetWindowing
    \/ GetWindowing
    \/ SetPixformat
    \/ SetFramerate
    \/ SetAutoGain
    \/ SetAutoExposure
    \/ SetAutoWhitebal
    \/ SetGainceiling
    \/ SetBrightness
    \/ SetContrast
    \/ SetSaturation
    \/ SetQuality
    \/ SetColorbar
    \/ SetSpecialEffect
    \/ SetLensCorrection
    \/ SetColorPalette
    \/ SetFramebuffers
    \/ AllocExtraFb
    \/ DeallocExtraFb
    \/ Ioctl
    \/ SetVsyncCallback
    \/ SetVsyncCallbackDriver
    \/ SetFrameCallback
    \/ SetFrameCallbackDriver
    \/ VsyncEvent
    \/ FrameEvent
Spec == Init /\ [][Next]_vars

\* capture and the skip_frames loop, the clock starting anywhere near its wrap
InitSkip ==
    InitWith({"capture"}, {b \in Builds : b.imu /\ ~b.af /\ ~b.hm01b0},
             {Upright}, {NoWinReq})
NextSkip ==
    \/ SkipFrames
    \/ SkipFramesStep
    \/ Snapshot
    \/ SetAutoRotation
SpecSkip == InitSkip /\ [][NextSkip]_vars

\* the extra frame buffer in an arena the rest of the system uses too
InitArena == InitWith({"arena"}, {b \in Builds : b.imu /\ ~b.af /\ ~b.hm01b0}, {Upright}, {NoWinReq})
NextArena ==
    \/ AllocExtraFb
    \/ DeallocExtraFb
    \/ ArenaMark
    \/ ArenaAlloc
    \/ ArenaRollback
SpecArena == InitArena /\ [][NextArena]_vars

\* callback registration, with the hardware events the host fires
InitCallbacks ==
    InitWith({"callbacks"}, {b \in Builds : b.imu /\ ~b.af /\ ~b.hm01b0}, {Upright}, {NoWinReq})
NextCallbacks ==
    \/ SetVsyncCallback
    \/ SetVsyncCallbackDriver
    \/ SetFrameCallback
    \/ SetFrameCallbackDriver
    \/ VsyncEvent
    \/ FrameEvent
SpecCallbacks == InitCallbacks /\ [][NextCallbacks]_vars

\* the frame buffer count and the extra frame buffer
NextBuffers ==
    \/ SetFramebuffers
    \/ AllocExtraFb
    \/ DeallocExtraFb
InitBuffers ==
    InitWith({"buffers"}, {b \in Builds : b.imu /\ ~b.af /\ ~b.hm01b0}, {Upright}, {NoWinReq})
SpecBuffers == InitBuffers /\ [][NextBuffers]_vars

\* the setters of the control surface, of either error convention
InitSetters ==
    /\ InitWith({"orientation", "geometry", "format", "controls"},
                {b \in Builds : b.imu /\ ~b.af /\ ~b.hm01b0}, {Upright}, FewWinReqs)
    /\ session # "geometry" => winreq = NoWinReq
NextSetters ==
    \/ SetHmirror
    \/ SetVflip
    \/ SetTranspose
    \/ SetPixformat
    \/ SetFramesize
    \/ SetFramerate
    \/ SetWindowing
    \/ SetAutoExposure
    \/ SetAutoGain
    \/ SetAutoWhitebal
    \/ SetGainceiling
    \/ SetBrightness
    \/ SetContrast
    \/ SetSaturation
    \/ SetQuality
    \/ SetColorbar
    \/ SetSpecialEffect
    \/ SetLensCorrection
SpecSetters == InitSetters /\ [][NextSetters]_vars

\* the quality setter over its whole range
InitQuality ==
    InitWith({"controls"}, {b \in Builds : b.imu /\ ~b.af /\ ~b.hm01b0}, {Upright}, {NoWinReq})
NextQuality == SetQuality
SpecQuality == InitQuality /\ [][NextQuality]_vars

\* the roll classifier over every roll and every active zone
InitSectors ==
    InitWith({"sectors"}, {b \in Builds : b.imu /\ ~b.af /\ ~b.hm01b0},
             [pitch : {0}, roll : 0..359], {NoWinReq})
NextSectors ==
    \/ SetAutoRotation
    \/ DoAutoRotation
SpecSectors == InitSectors /\ [][NextSectors]_vars

\* the vendor ioctl multiplexer
InitIoctl == InitWith({"ioctl"}, {b \in Builds : b.imu}, {Upright}, {NoWinReq})
NextIoctl == Ioctl
SpecIoctl == InitIoctl /\ [][NextIoctl]_vars

\* the orientation auto-correction
InitRot == InitWith({"orientation"}, {b \in Builds : ~b.af /\ ~b.hm01b0}, Orientations, {NoWinReq})
NextRot ==
    \/ Reset
    \/ Snapshot
    \/ SetAutoRotation
    \/ SetHmirror
    \/ SetVflip
    \/ SetTranspose
SpecRot == InitRot /\ [][NextRot]_vars

----------------------------------------------------------------------------
\* What the claims look at.

OrientationSetters == {"sensor_set_hmirror", "sensor_set_vflip", "sensor_set_transpose"}
ImuReads == {"py_imu_pitch_rotation", "py_imu_roll_rotation"}

\* the calls of the last operation to the functions in fns: name and arguments
CallsTo(fns) ==
    LET sel == SelectSeq(calls, LAMBDA c : c[1] \in fns)
    IN  [i \in DOMAIN sel |-> <<sel[i][1], sel[i][2]>>]

\* positions in calls of the calls to the functions in fns
CallIndices(fns) == {i \in DOMAIN calls : calls[i][1] \in fns}

\* the three setter calls that apply a (mirror, flip, transpose) triple
TripleCalls(t) ==
    << <<"sensor_set_hmirror", <<t[1]>> >>,
       <<"sensor_set_vflip", <<t[2]>> >>,
       <<"sensor_set_transpose", <<t[3]>> >> >>

\* the pixels of a rectangle
Pixels(r) == {<<i, j>> : i \in r.x..(r.x + r.w - 1), j \in r.y..(r.y + r.h - 1)}
RectOfTuple(t) == [x |-> t[1], y |-> t[2], w |-> t[3], h |-> t[4]]

\* the native bounding rectangle of the current frame size
NativeW == resolution[sensor.framesize][1]
NativeH == resolution[sensor.framesize][2]
NativeRect == [x |-> 0, y |-> 0, w |-> NativeW, h |-> NativeH]

----------------------------------------------------------------------------
\* C1: set_windowing with a 2-value argument (w, h), 1 <= w <= W, 1 <= h <= H.

C1_Case ==
    /\ op.name = "set_windowing"
    /\ sensor.framesize # FRAMESIZE_INVALID
    /\ Len(op.args.array) = 2
    /\ 1 <= op.args.array[1] /\ op.args.array[1] <= NativeW
    /\ 1 <= op.args.array[2] /\ op.args.array[2] <= NativeH

\* C1 as stated: the driver's set-windowing primitive is given the rectangle
\* with x = (W-w)/2 and y = (H-h)/2 and the requested w and h.
C1_CenteredByDifference ==
    C1_Case =>
        CallsTo({"sensor_set_windowing"}) =
            << <<"sensor_set_windowing",
                 <<CDiv(NativeW - op.args.array[1], 2),
                   CDiv(NativeH - op.args.array[2], 2),
                   op.args.array[1], op.args.array[2]>> >> >>

\* C1 as amended: the driver's set-windowing primitive is called exactly once,
\* with x = W/2 - w/2 and y = H/2 - h/2 (each division truncating) and the
\* requested w and h.
C1_CenteredByHalves ==
    C1_Case =>
        CallsTo({"sensor_set_windowing"}) =
            << <<"sensor_set_windowing",
                 <<CDiv(NativeW, 2) - CDiv(op.args.array[1], 2),
                   CDiv(NativeH, 2) - CDiv(op.args.array[2], 2),
                   op.args.array[1], op.args.array[2]>> >> >>

\* an odd width in an even frame: the case in which the two formulas differ
C1_Witness ==
    /\ C1_Case
    /\ NativeW = 4 /\ op.args.array = <<1, 1>>
    /\ result.type = "none"
    /\ <<fb.x, fb.y, fb.u, fb.v>> = <<2, 1, 1, 1>>

----------------------------------------------------------------------------
\* C2: set_windowing with a 4-value argument (x, y, w, h), w >= 1, h >= 1.

C2_Case ==
    /\ op.name = "set_windowing"
    /\ sensor.framesize # FRAMESIZE_INVALID
    /\ Len(op.args.array) = 4
    /\ op.args.array[3] >= 1 /\ op.args.array[4] >= 1

\* C2: a rectangle that shares pixels with the native bounds reaches the
\* driver as exactly its intersection with the bounds, in one call; a rectangle
\* that shares none fails with InvalidArgument and the driver is not called.
C2_ClipsOrRejects ==
    C2_Case =>
        LET r == RectOfTuple(op.args.array)
            common == Pixels(r) \cap Pixels(NativeRect)
            made == CallsTo({"sensor_set_windowing"})
        IN  IF common # {}
            THEN /\ Len(made) = 1
                 /\ Pixels(RectOfTuple(made[1][2])) = common
                 /\ ErrorKind(result) \in {"none", "SensorError"}
            ELSE /\ calls = <<>>
                 /\ ErrorKind(result) = "InvalidArgument"

\* a request that hangs over two edges and was clipped
C2_Witness ==
    /\ C2_Case
    /\ NativeW = 4 /\ op.args.array = <<3, 0 - 1, 3, 2>>
    /\ result.type = "none"
    /\ <<fb.x, fb.y, fb.u, fb.v>> = <<3, 0, 1, 1>>

----------------------------------------------------------------------------
\* C3, C7, C8: the orientation correction inside reset and snapshot.

\* the last operation ran the correction with auto-rotation enabled
CorrectionRan == CallIndices({"py_imu_pitch_rotation"}) # {}
\* ... and went on to classify the roll
RollClassified == CallIndices({"py_imu_roll_rotation"}) # {}

\* the closed dead-zone bands [90-10, 90+10] and [270-10, 270+10]
InClosedBand(p) ==
    \/ (90 - 10 <= p) /\ (p <= 90 + 10)
    \/ (270 - 10 <= p) /\ (p <= 270 + 10)

\* C3 as stated: with auto-rotation enabled and the pitch inside either closed
\* band, end points included, the correction makes no call that sets mirror,
\* flip or transpose.
C3_NoCorrectionInClosedBand ==
    (op.name \in {"reset", "snapshot"} /\ CorrectionRan /\ InClosedBand(imu.pitch))
        => CallIndices(OrientationSetters) = {}

\* the gaps between the 35-degree sectors
InGap(roll) ==
    \/ (35 <= roll) /\ (roll < 55)
    \/ (125 <= roll) /\ (roll < 145)
    \/ (215 <= roll) /\ (roll < 235)
    \/ (305 <= roll) /\ (roll < 325)

\* the triple of the 45-degree sector that contains the roll
Triple45(roll) ==
    IF (315 <= roll) \/ (roll < 45) THEN <<FALSE, FALSE, FALSE>>
    ELSE IF roll < 135 THEN <<FALSE, TRUE, TRUE>>
    ELSE IF roll < 225 THEN <<TRUE, TRUE, FALSE>>
    ELSE <<TRUE, FALSE, TRUE>>

\* each orientation flag whose setter the driver accepted holds the value t gives it
AcceptedFlagsAre(t) ==
    \A i \in CallIndices(OrientationSetters) :
        calls[i][3] = NO_ERROR =>
            /\ (calls[i][1] = "sensor_set_hmirror" => sensor.hmirror = t[1])
            /\ (calls[i][1] = "sensor_set_vflip" => sensor.vflip = t[2])
            /\ (calls[i][1] = "sensor_set_transpose" => sensor.transpose = t[3])

\* C7: with auto-rotation enabled, the pitch outside the dead zones and the
\* roll in a gap between the 35-degree sectors, a snapshot makes no setter call
\* and leaves mirror, flip and transpose as they were, while a successful reset
\* applies the triple of the 45-degree sector that contains the roll: it calls
\* the three setters with it, and every flag the driver accepted holds it.
C7_Hysteresis ==
    [][(RollClassified /\ InGap(imu.roll))' =>
          /\ (op' .name = "snapshot" =>
                /\ CallsTo(OrientationSetters)' = <<>>
                /\ <<sensor.hmirror, sensor.vflip, sensor.transpose>>'
                     = <<sensor.hmirror, sensor.vflip, sensor.transpose>>)
          /\ (op' .name = "reset" =>
                /\ CallsTo(OrientationSetters)' = TripleCalls(Triple45(imu.roll))
                /\ AcceptedFlagsAre(Triple45(imu.roll))')
      ]_vars

\* a reset at roll 40, in the gap [35,55), that applied the upright orientation
C7_Witness ==
    /\ op.name = "reset" /\ result.type = "none"
    /\ RollClassified /\ imu.roll = 40
    /\ CallsTo(OrientationSetters) = TripleCalls(<<FALSE, FALSE, FALSE>>)

\* the decision table of the four cardinal rolls
TableTriple(roll) ==
    CASE roll = 0 -> <<FALSE, FALSE, FALSE>>
      [] roll = 270 -> <<TRUE, FALSE, TRUE>>
      [] roll = 180 -> <<TRUE, TRUE, FALSE>>
      [] roll = 90 -> <<FALSE, TRUE, TRUE>>

\* the correction of the last operation ran to its end: always in a snapshot,
\* in a reset only when the driver's reset succeeded
CorrectionDone ==
    \/ op.name = "snapshot"
    \/ op.name = "reset" /\ ~Raised(result)

\* C8: with auto-rotation enabled and the pitch outside both dead-zone bands,
\* the correction of a reset (half-width 45) and of a snapshot (half-width 35)
\* applies (false,false,false) at roll 0, (true,false,true) at 270,
\* (true,true,false) at 180 and (false,true,true) at 90; with auto-rotation
\* disabled it reads neither pitch nor roll and calls none of the three setters.
C8_DecisionTable ==
    (build.imu /\ CorrectionDone) =>
        /\ (sensor.auto_rotation /\ ~InClosedBand(imu.pitch)
                /\ imu.roll \in {0, 90, 180, 270})
              => /\ CallsTo(OrientationSetters) = TripleCalls(TableTriple(imu.roll))
                 /\ AcceptedFlagsAre(TableTriple(imu.roll))
        /\ ~sensor.auto_rotation
              => /\ CallsTo(ImuReads) = <<>>
                 /\ CallsTo(OrientationSetters) = <<>>

\* a snapshot at roll 270 that turned the image to "rotated right"
C8_Witness ==
    /\ op.name = "snapshot" /\ imu.roll = 270 /\ imu.pitch = 0
    /\ CallsTo(OrientationSetters) = TripleCalls(<<TRUE, FALSE, TRUE>>)
    /\ <<sensor.hmirror, sensor.vflip, sensor.transpose>> = <<TRUE, FALSE, TRUE>>

----------------------------------------------------------------------------
\* C4: what an operation that raises leaves behind.

RaisingOps ==
    {"reset", "snapshot", "skip_frames", "set_pixformat", "set_framesize",
     "set_framerate", "set_windowing", "set_hmirror", "set_vflip", "set_transpose",
     "set_auto_rotation", "set_framebuffers", "ioctl"}

\* SensorState when the operation that is ending began
StateAtEntry == IF skip.pc = "loop" THEN skip.entry ELSE <<sensor, fb>>

\* SensorState without mirror, flip and transpose
WithoutOrientation(st) ==
    <<[st[1] EXCEPT !.hmirror = FALSE, !.vflip = FALSE, !.transpose = FALSE], st[2]>>

\* C4 as stated: when an operation of the raising family ends by raising an
\* error, every SensorState field has the value it had immediately before the
\* operation began.
C4_RaiseLeavesStateUnchanged ==
    [][(op' .name \in RaisingOps /\ Raised(result'))
          => <<sensor, fb>>' = StateAtEntry
      ]_vars

\* C4 as amended: when an operation of the raising family ends by raising an
\* error, every SensorState field other than mirror, flip and transpose has the
\* value it had before the operation began; mirror, flip and transpose have it
\* too unless the operation is a snapshot or skip_frames that ran with
\* auto-rotation enabled, whose orientation correction stays applied.
C4_RaiseKeepsAllButCorrection ==
    [][(op' .name \in RaisingOps /\ Raised(result'))
          => /\ WithoutOrientation(<<sensor, fb>>') = WithoutOrientation(StateAtEntry)
             /\ (op' .name \in {"snapshot", "skip_frames"} /\ sensor.auto_rotation)
                  \/ (<<sensor, fb>>' = StateAtEntry)
      ]_vars

\* a snapshot that turned the image upside down and then failed to capture
C4_Witness ==
    /\ op.name = "snapshot" /\ Raised(result)
    /\ imu = [pitch |-> 0, roll |-> 180]
    /\ CallsTo(OrientationSetters) = TripleCalls(<<TRUE, TRUE, FALSE>>)
    /\ <<sensor.hmirror, sensor.vflip, sensor.transpose>> = <<TRUE, TRUE, FALSE>>

----------------------------------------------------------------------------
\* C5: what becomes of a nonzero code a driver call returned.

BooleanSetters ==
    {"set_gainceiling", "set_brightness", "set_contrast", "set_saturation",
     "set_quality", "set_colorbar", "set_special_effect", "set_lens_correction"}

\* the collaborators that are not the sensor driver
NotDriver ==
    ImuReads \cup {"fb_alloc_mark", "fb_alloc0", "fb_alloc_mark_permanent",
                   "fb_alloc_free_till_mark_past_mark_permanent",
                   "py_image_from_struct", "xalloc"}

\* the driver calls of the last operation that returned a nonzero code
DriverFailures ==
    {i \in DOMAIN calls : calls[i][1] \notin NotDriver /\ calls[i][3] # NO_ERROR}

\* C5 as stated: an operation in which a driver call returned a nonzero code
\* yields false if it is a boolean-returning setter and raises a SensorError
\* otherwise; the correction inside reset and snapshot is no exception.
C5_DriverCodesSurfaced ==
    DriverFailures # {} =>
        IF op.name \in BooleanSetters
        THEN result = Returns("false")
        ELSE ErrorKind(result) = "SensorError"

----------------------------------------------------------------------------
\* C6: where the orientation correction runs.

\* the calls the correction makes
CorrectionCalls == CallIndices(ImuReads \cup OrientationSetters)

\* C6 as stated: the correction runs before the driver's reset call in reset
\* and before the driver's capture call in snapshot, and no operation other
\* than reset, snapshot and skip_frames (which invokes snapshot) reads the
\* pitch or the roll.
C6_CorrectionBeforeDriver ==
    /\ op.name \in {"reset", "snapshot", "skip_frames"} =>
         \A i \in CorrectionCalls, j \in CallIndices({"sensor_reset", "sensor.snapshot"}) :
             i < j
    /\ op.name \notin {"reset", "snapshot", "skip_frames"} =>
         CallIndices(ImuReads) = {}

\* C6 as amended: in snapshot, and in every snapshot skip_frames invokes, the
\* correction runs before the driver's one capture call; in reset it runs after
\* the driver's one reset call, and not at all when that call fails; no other
\* operation reads the pitch or the roll.
C6_CorrectionAroundDriver ==
    /\ op.name = "snapshot" =>
         /\ Len(CallsTo({"sensor.snapshot"})) = 1
         /\ \A i \in CorrectionCalls, j \in CallIndices({"sensor.snapshot"}) : i < j
    /\ op.name = "skip_frames" =>
         /\ Len(CallsTo({"sensor.snapshot"})) <= 1
         /\ CorrectionCalls # {} => Len(CallsTo({"sensor.snapshot"})) = 1
         /\ \A i \in CorrectionCalls, j \in CallIndices({"sensor.snapshot"}) : i < j
    /\ op.name = "reset" =>
         /\ Len(CallsTo({"sensor_reset"})) = 1
         /\ \A i \in CorrectionCalls, j \in CallIndices({"sensor_reset"}) : j < i
         /\ Raised(result) => CorrectionCalls = {}
    /\ op.name \notin {"reset", "snapshot", "skip_frames"} =>
         CallIndices(ImuReads) = {}

\* a reset whose driver call came first and whose correction then set the flags
C6_Witness ==
    /\ op.name = "reset" /\ ~Raised(result)
    /\ Len(calls) > 1 /\ calls[1][1] = "sensor_reset"
    /\ CallIndices(ImuReads) # {} /\ CallIndices(OrientationSetters) # {}

----------------------------------------------------------------------------
\* C9: arguments that fail validation.

\* the last operation was given arguments its validation rejects
BadArguments ==
    \/ /\ op.name = "set_windowing"
       /\ sensor.framesize # FRAMESIZE_INVALID
       /\ \/ Len(op.args.array) \notin {2, 4}
          \/ Len(op.args.array) = 2 /\ (op.args.array[1] < 1 \/ op.args.array[2] < 1)
          \/ Len(op.args.array) = 4 /\ (op.args.array[3] < 1 \/ op.args.array[4] < 1)
          \/ Len(op.args.array) = 4
               /\ Pixels(RectOfTuple(op.args.array)) \cap Pixels(NativeRect) = {}
    \/ op.name = "set_quality" /\ op.args[1] \notin 0..100
    \/ op.name = "set_gainceiling" /\ op.args[1] \notin {2, 4, 8, 16, 32, 64, 128}
    \/ op.name = "set_framebuffers" /\ op.args[1] < 1
    \/ op.name = "set_color_palette"
         /\ op.args[1] \notin {"COLOR_PALETTE_RAINBOW", "COLOR_PALETTE_IRONBOW"}
    \/ /\ op.name = "ioctl"
       /\ \/ /\ op.args.request \in {"IOCTL_SET_READOUT_WINDOW", "IOCTL_HIMAX_MD_WINDOW"}
             /\ op.args.request \in CompiledRequests
             /\ op.args.n_args >= 2
             /\ Len(op.args.array) \notin {2, 4}
          \/ /\ op.args.request
                  \in {"IOCTL_LEPTON_SET_ATTRIBUTE", "IOCTL_LEPTON_GET_ATTRIBUTE"}
             /\ op.args.n_args >= 3
             /\ op.args.data_len = 0
    \/ /\ op.name = "alloc_extra_fb"
       /\ \/ op.args[1] <= 0
          \/ op.args[2] <= 0
          \/ op.args[3] \notin {"PIXFORMAT_GRAYSCALE", "PIXFORMAT_RGB565"}

\* C9: an operation given arguments that fail validation raises InvalidArgument
\* having called no collaborator at all, the sensor driver and the arena
\* included, and the arena is as it was.
C9_ValidationFirst ==
    [][BadArguments' =>
          /\ ErrorKind(result') = "InvalidArgument"
          /\ calls' = <<>>
          /\ arena' = arena
          /\ <<sensor, fb>>' = StateAtEntry
      ]_vars

\* a quality above 100 was refused and the driver never saw it
C9_Witness ==
    /\ op.name = "set_quality" /\ op.args = <<101>>
    /\ ErrorKind(result) = "InvalidArgument"
    /\ calls = <<>>

----------------------------------------------------------------------------
\* C10: requests the ioctl multiplexer does not pass on.

\* arguments, the request included, below which a request's case calls nothing
IoctlMinArgs(request) ==
    CASE request \in {"IOCTL_SET_READOUT_WINDOW", "IOCTL_HIMAX_MD_WINDOW",
                      "IOCTL_SET_TRIGGERED_MODE", "IOCTL_LEPTON_RUN_COMMAND",
                      "IOCTL_HIMAX_MD_ENABLE", "IOCTL_HIMAX_MD_THRESHOLD",
                      "IOCTL_HIMAX_OSC_ENABLE",
                      "IOCTL_LEPTON_SET_MEASUREMENT_MODE"} -> 2
      [] request \in {"IOCTL_LEPTON_SET_ATTRIBUTE", "IOCTL_LEPTON_GET_ATTRIBUTE",
                      "IOCTL_LEPTON_SET_MEASUREMENT_RANGE"} -> 3
      [] OTHER -> 1

\* C10: an ioctl whose request is outside the compiled-in set fails with
\* UnsupportedControl, and one whose request is compiled in but is given fewer
\* arguments than its case needs fails with InvalidArgument, the initial value
\* of the local error; in both cases the driver's ioctl is not called.
C10_UnusableRequestStopped ==
    op.name = "ioctl" =>
        /\ op.args.request \notin CompiledRequests =>
             /\ result = sensor_raise_error(SENSOR_ERROR_CTL_UNSUPPORTED)
             /\ calls = <<>>
        /\ (op.args.request \in CompiledRequests
                /\ op.args.n_args < IoctlMinArgs(op.args.request)) =>
             /\ result = sensor_raise_error(SENSOR_ERROR_INVALID_ARGUMENT)
             /\ ErrorKind(result) = "InvalidArgument"
             /\ calls = <<>>

\* an attribute write without its payload argument, stopped at the multiplexer
C10_Witness ==
    /\ op.name = "ioctl"
    /\ op.args.request = "IOCTL_LEPTON_SET_ATTRIBUTE" /\ op.args.n_args = 2
    /\ result = sensor_raise_error(SENSOR_ERROR_INVALID_ARGUMENT)
    /\ calls = <<>>

----------------------------------------------------------------------------
\* C11: skip_frames given both a count and a time budget.

\* a budget as the comparison with the unsigned elapsed time reads it
BudgetRead(t) == IF t >= 0 THEN t ELSE ClockWrap + t

\* the larger of a count and zero
AtLeastZero(n) == IF n >= 0 THEN n ELSE 0

----------------------------------------------------------------------------
\* C12, C13, C14: the extra frame buffer in the arena.

\* the storage of the extra frame buffers an arena holds, oldest first
ExtraStorage(a) == SelectSeq(a, LAMBDA e : e.kind = "block" /\ e.owner = "extra")

\* s is t, or t with entries added at its end
Extends(s, t) == Len(s) >= Len(t) /\ SubSeq(s, 1, Len(t)) = t

AllocSucceeded == op.name = "alloc_extra_fb" /\ result = Returns("image")

\* C12: a successful alloc_extra_fb puts the buffer's storage in the arena; no
\* later mark, allocation or ordinary rollback by the rest of the system, and
\* no operation other than dealloc_extra_fb, releases the storage of any extra
\* buffer; dealloc_extra_fb pops the arena back past the most recent permanent
\* mark, which releases the most recent extra buffer and no other.
C12_OnlyDeallocReleases ==
    [][/\ AllocSucceeded' =>
            /\ Len(ExtraStorage(arena')) = Len(ExtraStorage(arena)) + 1
            /\ arena'[Len(arena')].permanent
       /\ op' .name # "dealloc_extra_fb" =>
            Extends(ExtraStorage(arena'), ExtraStorage(arena))
       /\ (op' .name = "dealloc_extra_fb" /\ ExtraStorage(arena) # <<>>) =>
            /\ ExtraStorage(arena')
                 = SubSeq(ExtraStorage(arena), 1, Len(ExtraStorage(arena)) - 1)
            /\ arena' = SubSeq(arena, 1, Highest(PermanentMarks(arena)) - 1)
      ]_vars

\* a rollback that released what lay above an extra buffer and stopped at it
C12_Witness ==
    /\ op.name = "fb_alloc_free_till_mark" /\ op.args[1] > 0
    /\ ExtraStorage(arena) # <<>>
    /\ arena[Len(arena)].owner = "extra"

\* C13: a dealloc_extra_fb that follows a successful alloc_extra_fb leaves the
\* arena, its used space and its marks, as it was before the allocate call.
C13_AllocDeallocRoundTrip ==
    [][(AllocSucceeded /\ op' .name = "dealloc_extra_fb") =>
          /\ arena' = op.arena0
          /\ ArenaUsed(arena') = ArenaUsed(op.arena0)
          /\ Marks(arena') = Marks(op.arena0)
      ]_vars

\* a round trip made on an arena that already held marks and blocks
C13_Witness ==
    /\ op.name = "dealloc_extra_fb"
    /\ Len(op.arena0) = Len(arena) + 2
    /\ op.arena0[Len(op.arena0)].owner = "extra"
    /\ Marks(arena) # {} /\ ArenaUsed(arena) > 0

\* the names of the calls the last operation made, in order
CallNames(cs) == [i \in DOMAIN cs |-> cs[i][1]]

\* C14: alloc_extra_fb with valid arguments constructs the handle, pushes a
\* mark, allocates the storage and promotes the mark, in that order.  When the
\* handle cannot be constructed nothing else is called and the arena is as it
\* was; when the storage cannot be allocated the mark is not promoted, and the
\* ordinary rollback that follows returns the arena to what it was before the call.
C14_HandleThenStorage ==
    [][/\ (op' .name = "alloc_extra_fb" /\ ErrorKind(result') # "InvalidArgument") =>
            LET names == CallNames(calls')
            IN  \/ /\ result' = Returns("image")
                   /\ names = <<"py_image_from_struct", "fb_alloc_mark", "fb_alloc0",
                                "fb_alloc_mark_permanent">>
                \/ /\ result' = MemoryError
                   /\ names = <<"py_image_from_struct">>
                   /\ arena' = arena
                \/ /\ result' = MemoryError
                   /\ names = <<"py_image_from_struct", "fb_alloc_mark", "fb_alloc0">>
                   /\ calls'[1][3] = NO_ERROR /\ calls'[3][3] # NO_ERROR
                   /\ Extends(arena', arena)
                   /\ \A k \in (Len(arena) + 1)..Len(arena') : ~arena'[k].permanent
                   /\ PopTillMark(arena') = arena
       /\ (op.name = "alloc_extra_fb" /\ result = MemoryError /\ Len(calls) = 3
              /\ op' .name = "fb_alloc_free_till_mark") =>
            arena' = op.arena0
      ]_vars

\* the storage did not fit, and the rollback that followed undid the mark
C14_Witness ==
    /\ op.name = "fb_alloc_free_till_mark" /\ op.args[1] = 1
    /\ arena # <<>> /\ op.arena0 = Append(arena, [kind |-> "mark", size |-> 0,
                                                 permanent |-> FALSE, owner |-> "none"])
    /\ ArenaUsed(arena) > ArenaSize - 2

----------------------------------------------------------------------------
\* Callback registration.

\* each slot holds the value last offered for it if callable, and is empty
\* otherwise; its event source is enabled exactly when the slot is non-empty
SlotsSettled ==
    /\ vsync_callback = (IF mp_obj_is_callable(reg.vsync) THEN reg.vsync ELSE mp_const_none)
    /\ frame_callback = (IF mp_obj_is_callable(reg.frame) THEN reg.frame ELSE mp_const_none)
    /\ (irq.vsync # NULL) <=> (vsync_callback # mp_const_none)
    /\ (irq.frame # NULL) <=> (frame_callback # mp_const_none)

\* C15 as stated: slot and event source always agree; a registration changes
\* both together, so that no state shows one changed and the other not.
C15_SlotAndSourceTogether == SlotsSettled

\* C15: after every completed registration each slot holds the value last
\* registered for it if callable and is empty otherwise, and its event source
\* is enabled exactly when the slot is non-empty; a registration leaves the
\* other slot and its event source alone; inside a registration the slot is
\* written first and the driver is told second, with the event source still
\* in its old state in between.
C15_SlotThenSource ==
    /\ [](reg.pc = "idle" => SlotsSettled)
    /\ [][/\ reg.pc # reg'.pc =>
               /\ (op'.name = "set_vsync_callback" =>
                      frame_callback' = frame_callback /\ irq'.frame = irq.frame)
               /\ (op'.name = "set_frame_callback" =>
                      vsync_callback' = vsync_callback /\ irq'.vsync = irq.vsync)
          /\ (reg.pc = "idle" /\ reg'.pc # "idle") =>
               /\ irq' = irq
               /\ calls' = <<>>
          /\ (reg.pc # "idle" /\ reg'.pc = "idle") =>
               /\ vsync_callback' = vsync_callback
               /\ frame_callback' = frame_callback
               /\ Len(calls') = 1]_vars

\* a callable was replaced on one slot and a non-callable cleared the other
C15_Witness ==
    /\ reg.pc = "idle"
    /\ op.name = "set_frame_callback"
    /\ reg.frame = "int"
    /\ frame_callback = mp_const_none
    /\ irq.frame = NULL
    /\ invoked.source = "frame" /\ invoked.fn = "f"
    /\ vsync_callback = "g"
    /\ irq.vsync = "sensor_vsync_callback"

----------------------------------------------------------------------------
\* C16: get_windowing after a successful set_windowing.

\* the rectangle a set_windowing argument asks for
RequestedRect(array) ==
    IF Len(array) = 2 THEN CenteredRect(array, NativeRect) ELSE RectOfTuple(array)

\* C16: when set_windowing succeeded, the get_windowing that follows returns
\* the committed rectangle: the pixels of the request that lie in the native
\* bounds, which is the request itself when it lies within the bounds and
\* differs from the request when it does not.
C16_ReturnsCommitted ==
    [][(/\ op.name = "set_windowing"
        /\ result = Returns("none")
        /\ op'.name = "get_windowing") =>
            LET request == RequestedRect(op.args.array)
                inside == Pixels(request) \subseteq Pixels(NativeRect)
            IN  /\ result'.type = "value"
                /\ Len(result'.value) = 4
                /\ Pixels(RectOfTuple(result'.value)) =
                       Pixels(request) \cap Pixels(NativeRect)
                /\ inside <=> (RectOfTuple(result'.value) = request)]_vars

\* a clipped request read back, and not the request
C16_Witness ==
    /\ op.name = "get_windowing"
    /\ winreq.array = <<3, 0 - 1, 3, 2>>
    /\ sensor.framesize = "FS_A"
    /\ result = ReturnsValue(<<3, 0, 1, 1>>)

----------------------------------------------------------------------------
\* C17: set_framebuffers(c).

\* C17: with c the current buffer count the operation returns none, calls
\* nothing and leaves the count; otherwise c < 1 fails with InvalidArgument
\* and calls nothing, and c >= 1 calls the driver's set_framebuffers(c) once
\* and nothing else; the count only changes to c, when the driver accepts it.
C17_NoOpRejectOrDelegate ==
    [][op'.name = "set_framebuffers" =>
        LET c == op'.args[1]
        IN  IF c = fb.n_buffers
            THEN /\ result' = Returns("none")
                 /\ calls' = <<>>
                 /\ fb' = fb
            ELSE IF c < 1
            THEN /\ ErrorKind(result') = "InvalidArgument"
                 /\ calls' = <<>>
                 /\ fb' = fb
            ELSE /\ Len(calls') = 1
                 /\ calls'[1][1] = "sensor_set_framebuffers"
                 /\ calls'[1][2] = <<c>>
                 /\ fb'.n_buffers = (IF calls'[1][3] = NO_ERROR THEN c ELSE fb.n_buffers)
                 /\ ErrorKind(result') =
                        (IF calls'[1][3] = NO_ERROR THEN "none" ELSE "SensorError")]_vars

\* the count was raised to two, and then zero buffers were asked for
C17_Witness ==
    /\ op.name = "set_framebuffers"
    /\ op.args = <<0>>
    /\ fb.n_buffers = MaxBuffers
    /\ calls = <<>>
    /\ result = sensor_raise_error(SENSOR_ERROR_INVALID_ARGUMENT)

\* the current count asked for again: nothing happens
C17_NoOpReached ==
    /\ op.name = "set_framebuffers"
    /\ op.args = <<MaxBuffers>>
    /\ calls = <<>>
    /\ result = Returns("none")

----------------------------------------------------------------------------
\* C18: the two error-reporting conventions.

\* the setters that raise, and the driver function each setter forwards to
RaisingSetters ==
    {"set_hmirror", "set_vflip", "set_transpose", "set_pixformat", "set_framesize",
     "set_framerate", "set_windowing", "set_auto_exposure", "set_auto_gain",
     "set_auto_whitebal"}
DriverOf ==
    [set_gainceiling |-> "sensor_set_gainceiling",
     set_brightness |-> "sensor_set_brightness",
     set_contrast |-> "sensor_set_contrast",
     set_saturation |-> "sensor_set_saturation",
     set_quality |-> "sensor_set_quality",
     set_colorbar |-> "sensor_set_colorbar",
     set_special_effect |-> "sensor_set_special_effect",
     set_lens_correction |-> "sensor_set_lens_correction",
     set_hmirror |-> "sensor_set_hmirror",
     set_vflip |-> "sensor_set_vflip",
     set_transpose |-> "sensor_set_transpose",
     set_pixformat |-> "sensor_set_pixformat",
     set_framesize |-> "sensor_set_framesize",
     set_framerate |-> "sensor_set_framerate",
     set_windowing |-> "sensor_set_windowing",
     set_auto_exposure |-> "sensor_set_auto_exposure",
     set_auto_gain |-> "sensor_set_auto_gain",
     set_auto_whitebal |-> "sensor_set_auto_whitebal"]

\* C18: when one of the eight boolean setters called its driver function, it
\* returns false on a nonzero code, raising nothing, and true on zero; when
\* one of the ten raising setters called its driver function, it raises the
\* RuntimeError of that code (a SensorError) on a nonzero code and returns
\* none on zero.
C18_TwoConventions ==
    (op.name \in BooleanSetters \cup RaisingSetters /\ calls # <<>>) =>
        LET code == calls[Len(calls)][3]
        IN  /\ Len(calls) = 1
            /\ calls[1][1] = DriverOf[op.name]
            /\ op.name \in BooleanSetters =>
                   result = (IF code # NO_ERROR THEN Returns("false") ELSE Returns("true"))
            /\ op.name \in RaisingSetters =>
                   /\ result = (IF code # NO_ERROR THEN sensor_raise_error(code)
                                ELSE Returns("none"))
                   /\ ErrorKind(result) = (IF code # NO_ERROR THEN "SensorError" ELSE "none")

\* a boolean setter whose driver call failed
C18_Witness ==
    /\ op.name = "set_lens_correction"
    /\ calls # <<>>
    /\ calls[1][3] = SENSOR_ERROR_CTL_FAILED
    /\ result = Returns("false")

\* a raising setter whose driver call failed
C18_RaisingReached ==
    /\ op.name = "set_auto_whitebal"
    /\ calls # <<>>
    /\ calls[1][3] = SENSOR_ERROR_CTL_FAILED
    /\ result = sensor_raise_error(SENSOR_ERROR_CTL_FAILED)

----------------------------------------------------------------------------
\* C19: the quality code.

\* set_quality ran with a value of [0,100]
QualityAccepted(o) ==
    /\ o.name = "set_quality"
    /\ 0 <= o.args[1] /\ o.args[1] <= 100

\* C19: for q in [0,100] the driver receives, in one call, the code c with
\* c * 100 <= 255 * (100 - q) < (c + 1) * 100, which is 255 * (100 - q) / 100
\* truncated: 0 for q = 100, 255 for q = 0, 127 for q = 50, always within
\* [0,255]; and of two calls the one with the higher q never has the higher code.
C19_QualityCode ==
    /\ [](QualityAccepted(op) =>
            /\ Len(calls) = 1
            /\ calls[1][1] = "sensor_set_quality"
            /\ Len(calls[1][2]) = 1
            /\ LET q == op.args[1]
                   c == calls[1][2][1]
               IN  /\ c * 100 <= 255 * (100 - q)
                   /\ 255 * (100 - q) < (c + 1) * 100
                   /\ 0 <= c /\ c <= 255
                   /\ q = 100 => c = 0
                   /\ q = 0 => c = 255
                   /\ q = 50 => c = 127)
    /\ [][(QualityAccepted(op) /\ QualityAccepted(op') /\ op'.args[1] > op.args[1]) =>
             calls'[1][2][1] <= calls[1][2][1]]_vars

\* the middle of the range: 127.5 truncated
C19_Witness ==
    /\ QualityAccepted(op)
    /\ op.args[1] = 50
    /\ calls = << <<"sensor_set_quality", <<127>>, NO_ERROR>> >>
    /\ result = Returns("true")

----------------------------------------------------------------------------
\* C20: set_windowing with a width or height below one.

C20_Case ==
    /\ op.name = "set_windowing"
    /\ sensor.framesize # FRAMESIZE_INVALID
    /\ Len(op.args.array) \in {2, 4}
    /\ LET r == RequestedRect(op.args.array) IN (r.w < 1) \/ (r.h < 1)

\* C20: with a valid frame size and a 2- or 4-value argument whose w or h is
\* below one, set_windowing fails with the InvalidArgument of the dimension
\* check, whether or not the rectangle overlaps the native bounds (a rectangle
\* off the frame is not reported as not overlapping), and calls nothing.
C20_DimensionsFirst ==
    C20_Case =>
        /\ ErrorKind(result) = "InvalidArgument"
        /\ result = ValueError("Invalid ROI dimensions!")
        /\ calls = <<>>

\* a rectangle of width zero that lies off the frame
C20_Witness ==
    /\ C20_Case
    /\ op.args.array = <<4, 4, 0, 1>>
    /\ ~rectangle_overlap(RequestedRect(op.args.array), NativeRect)
    /\ result = ValueError("Invalid ROI dimensions!")

\* a rectangle of width zero inside the frame
C20_InsideReached ==
    /\ C20_Case
    /\ op.args.array = <<1, 1, 0, 1>>
    /\ rectangle_overlap(RequestedRect(op.args.array), NativeRect)
    /\ result = ValueError("Invalid ROI dimensions!")

----------------------------------------------------------------------------
\* C21: set_windowing and get_windowing while no frame size is set.

C21_Case ==
    /\ op.name \in {"set_windowing", "get_windowing"}
    /\ sensor.framesize = FRAMESIZE_INVALID

\* C21: while the frame size is the invalid value, set_windowing fails with
\* InvalidFrameSize for every argument list, of any shape, size or position,
\* and so does get_windowing; nothing is called and the committed window
\* stays as it was.
C21_FrameSizeFirst ==
    C21_Case =>
        /\ result = sensor_raise_error(SENSOR_ERROR_INVALID_FRAMESIZE)
        /\ ErrorKind(result) = "InvalidFrameSize"
        /\ calls = <<>>
        /\ fb = FbInit

\* an argument list of a wrong shape, refused for the frame size
C21_Witness ==
    /\ C21_Case
    /\ op.name = "set_windowing"
    /\ Len(op.args.array) = 3
    /\ result = sensor_raise_error(SENSOR_ERROR_INVALID_FRAMESIZE)

\* get_windowing refused for the frame size
C21_GetReached ==
    /\ C21_Case
    /\ op.name = "get_windowing"
    /\ result = sensor_raise_error(SENSOR_ERROR_INVALID_FRAMESIZE)

----------------------------------------------------------------------------
\* C22: the four roll sectors.

\* the centres of the sectors whose condition holds for a roll: for the centre
\* 0 the condition is roll >= 360 - az or roll < az, for the others
\* centre - az <= roll < centre + az
SectorsOf(roll, az) ==
    {c \in {0, 90, 180, 270} :
        IF c = 0 THEN (roll >= 360 - az) \/ (roll < az)
        ELSE (c - az <= roll) /\ (roll < c + az)}

\* C22: when the correction classified a roll of [0,360) with an active zone
\* az <= 45, at most one sector condition holds; with no sector holding no
\* call sets mirror, flip or transpose; with one holding the calls are those
\* of that sector; with az = 45 exactly one sector holds.
C22_SectorsDisjoint ==
    (op.name = "do_auto_rotation" /\ RollClassified) =>
        LET az == op.args[2]
            S == SectorsOf(imu.roll, az)
        IN  /\ az <= 45 => Cardinality(S) <= 1
            /\ az = 45 => Cardinality(S) = 1
            /\ S = {} => CallsTo(OrientationSetters) = <<>>
            /\ (az <= 45 /\ S # {}) =>
                   CallsTo(OrientationSetters) = TripleCalls(TableTriple(CHOOSE c \in S : TRUE))

\* a roll in the gap between two active zones of 35 degrees
C22_Witness ==
    /\ op.name = "do_auto_rotation"
    /\ RollClassified
    /\ op.args[2] = 35
    /\ imu.roll = 130
    /\ CallsTo(OrientationSetters) = <<>>

\* the roll on the border of two sectors of 45 degrees belongs to the upper one
C22_BorderReached ==
    /\ op.name = "do_auto_rotation"
    /\ op.args[2] = 45
    /\ imu.roll = 45
    /\ CallsTo(OrientationSetters) = TripleCalls(<<FALSE, TRUE, TRUE>>)

\* beyond 45 degrees two sector conditions hold for one roll
C22_OverlapReached ==
    /\ op.name = "do_auto_rotation"
    /\ RollClassified
    /\ op.args[2] > 45
    /\ Cardinality(SectorsOf(imu.roll, op.args[2])) = 2

----------------------------------------------------------------------------
\* C23: skip_frames without a count.

\* C23 as stated: without a count, for every budget t, zero and negative ones
\* included, the loop ends at the first check at which the time elapsed since
\* the start, modulo the width of the counter, is at least t, and captures
\* only while it is less.
C23_EndsAtBudget ==
    [][(skip.pc = "loop" /\ skip.n_args = 0) =>
        LET reached == Elapsed(clock, skip.millis) >= skip.time
        IN  IF reached
            THEN /\ skip'.pc = "idle"
                 /\ skip'.frames = skip.frames
                 /\ result' = Returns("none")
            ELSE skip'.frames = skip.frames + 1]_vars

\* the same for the budgets that are not negative
C23_EndsAtBudgetFromZero ==
    [][(skip.pc = "loop" /\ skip.n_args = 0 /\ skip.time >= 0) =>
        LET reached == Elapsed(clock, skip.millis) >= skip.time
        IN  IF reached
            THEN /\ skip'.pc = "idle"
                 /\ skip'.frames = skip.frames
                 /\ result' = Returns("none")
            ELSE skip'.frames = skip.frames + 1]_vars

\* a call with the budget -1 that went on capturing
C23_NegativeBudgetCaptures ==
    /\ skip.pc = "loop"
    /\ skip.n_args = 0
    /\ skip.time = 0 - 1
    /\ skip.frames = MaxFrames

----------------------------------------------------------------------------
\* C25: the word count of the set-attribute ioctl.

\* the set-attribute ioctl reached the driver
SetAttributeSent ==
    /\ op.name = "ioctl"
    /\ op.args.request = "IOCTL_LEPTON_SET_ATTRIBUTE"
    /\ CallIndices({"sensor_ioctl"}) # {}

\* C25 as stated: whenever the set-attribute ioctl reaches the driver, the
\* word count it passes is at least one and covers every byte of the payload:
\* twice the word count is the payload's length in bytes.
C25_WholePayloadSent ==
    SetAttributeSent =>
        LET sent == calls[Len(calls)][2]
            words == sent[Len(sent)]
        IN  /\ words >= 1
            /\ words * 2 = op.args.data_len

\* a payload of one byte passed the length check and went out as zero words
C25_ZeroWordsSent ==
    /\ SetAttributeSent
    /\ op.args.data_len = 1
    /\ calls = << <<"sensor_ioctl", <<"IOCTL_LEPTON_SET_ATTRIBUTE", 1, 0>>, NO_ERROR>> >>
    /\ result = Returns("none")

\* what does hold: the word count is the payload's length halved, rounded down
C25_HalfRoundedDown ==
    SetAttributeSent =>
        LET sent == calls[Len(calls)][2]
            words == sent[Len(sent)]
        IN  /\ op.args.data_len >= 1
            /\ words * 2 <= op.args.data_len
            /\ op.args.data_len < (words + 1) * 2

----------------------------------------------------------------------------
\* C24: hardware events and the trampolines.

\* C24: an event, at whatever point it arrives, makes the trampoline call
\* the callable its slot holds at that moment, which is the value last
\* registered for the slot, and nothing when the slot is empty; it changes
\* neither the slots nor the driver's handlers. So a callable that was
\* replaced or cleared is not called once the new value is stored.
C24_TrampolineReadsSlot ==
    [][invoked' # invoked =>
        LET slot == IF invoked'.source = "vsync" THEN vsync_callback ELSE frame_callback
            registered == IF invoked'.source = "vsync" THEN reg.vsync ELSE reg.frame
        IN  /\ invoked'.source \in {"vsync", "frame"}
            /\ invoked'.fn = (IF slot = mp_const_none THEN "nothing" ELSE slot)
            /\ invoked'.fn = (IF registered \in Callables THEN registered ELSE "nothing")
            /\ UNCHANGED <<vsync_callback, frame_callback, irq, reg>>]_vars

\* an event between the clearing of the slot and the disabling of its source
C24_Witness ==
    /\ reg.pc = "vsync"
    /\ vsync_callback = mp_const_none
    /\ irq.vsync = "sensor_vsync_callback"
    /\ invoked.source = "vsync"
    /\ invoked.fn = "nothing"

\* an event between the replacing of a callable and the driver call
C24_ReplacedReached ==
    /\ reg.pc = "frame"
    /\ frame_callback = "g"
    /\ invoked.source = "frame"
    /\ invoked.fn = "g"


====
